---- MODULE Spec2Model ----
(***************************************************************************)
(* CortexFlow browser extension: the overlay's graduated intervention      *)
(* dispatcher and breakdown banner (extensions/content/overlay.js), the    *)
(* telemetry content script (extensions/content/telemetry.js) and the      *)
(* background service worker (sendTelemetry / endSession / storage sync).  *)
(*                                                                         *)
(* Signal values and risk are probabilities in [0,1]; they are modelled in *)
(* hundredths (0.45 is 45), which keeps every comparison of the source     *)
(* exact.  Times are Date.now() milliseconds counted from an arbitrary     *)
(* origin T0 > 0.                                                          *)
(***************************************************************************)
EXTENDS Integers, Sequences, FiniteSets, TLC

\* ------------------------------------------------------------------------
\* Bounds of the model
\* ------------------------------------------------------------------------
NumTabs == 2
MaxCount == 2
MaxTicks == 2
MaxTimers == 2
MaxSessions == 1
MaxIntervals == 1
MaxResults == 2
MaxPushes == 122
MaxTrendPushes == 8
MaxWebSessions == 2
MaxCalls == 2
MaxSwitches == 2
MaxWorkerSessions == 2
MaxWorkerTicks == 1
MaxHistoryIds == 3
MaxReloads == 2
MaxPending == 1

\* ------------------------------------------------------------------------
\* Program constants
\* ------------------------------------------------------------------------
T0 == 1000
Null == -1
NoKey == "none"
NoTask == "none"

Tabs == 1..NumTabs
Chan == {"instab", "drift", "fatigue"}
ChanOrder == <<"instab", "drift", "fatigue">>

TASK_THRESHOLDS ==
  [ coding  |-> [instab |-> <<45, 60, 70>>, drift |-> <<55, 70, 80>>, fatigue |-> <<60, 75, 85>>],
    writing |-> [instab |-> <<50, 65, 75>>, drift |-> <<50, 65, 75>>, fatigue |-> <<60, 75, 85>>],
    reading |-> [instab |-> <<50, 65, 75>>, drift |-> <<45, 60, 70>>, fatigue |-> <<60, 75, 85>>],
    video   |-> [instab |-> <<60, 75, 85>>, drift |-> <<40, 55, 65>>, fatigue |-> <<60, 75, 85>>],
    general |-> [instab |-> <<50, 65, 75>>, drift |-> <<50, 65, 75>>, fatigue |-> <<60, 75, 85>>] ]

TYPE_COOLDOWNS == [instab |-> 3 * 60000, drift |-> 4 * 60000, fatigue |-> 8 * 60000]

RED_THRESHOLDS == [coding |-> 50, writing |-> 60, reading |-> 55, video |-> 65, general |-> 65]

DefaultRedAt == 65
YellowAt == 45
LowRiskBelow == 35
RecoveryNeeded == 2
SustainNeeded == 2
BannerCooldownMs == 1000
BannerAutoDismissMs == 15000
MsgBannerHideMs == 12000
FocusBannerHideMs == 15000
TELEMETRY_INTERVAL_MS == 5000

KnownTasks == DOMAIN TASK_THRESHOLDS

\* String.prototype.toLowerCase on the task strings the session sources store
ToLowerCase(s) ==
  CASE s = "Coding"   -> "coding"
    [] s = "Writing"  -> "writing"
    [] s = "Reading"  -> "reading"
    [] s = "Watching" -> "watching"
    [] s = "Research" -> "research"
    [] OTHER          -> s

\* Variant: a task without floors of its own gets the coding floors
ThresholdsFor_Coding(task) ==
  IF task \in KnownTasks THEN TASK_THRESHOLDS[task] ELSE TASK_THRESHOLDS["coding"]

\* TASK_THRESHOLDS[_currentTask] || TASK_THRESHOLDS.general
ThresholdsFor(task) ==
  IF task \in KnownTasks THEN TASK_THRESHOLDS[task] ELSE TASK_THRESHOLDS["general"]

\* RED_THRESHOLDS[_currentTask] || 0.65
RedAtFor(task) ==
  IF task \in DOMAIN RED_THRESHOLDS THEN RED_THRESHOLDS[task] ELSE DefaultRedAt

\* data.x || 0
OrZero(v) == IF v = Null THEN 0 ELSE v

getSignalLevel(val, thresholds) ==
  IF val >= thresholds[3] THEN 3
  ELSE IF val >= thresholds[2] THEN 2
  ELSE IF val >= thresholds[1] THEN 1
  ELSE 0

Max(a, b) == IF a >= b THEN a ELSE b

\* ------------------------------------------------------------------------
\* State
\* ------------------------------------------------------------------------
VARIABLES
  now,                     \* Date.now()
  ticks,                   \* number of clock advances so far (bounds the run)
  mainChan,                \* input: the first of the session's two non-silent channels
  storedTask,              \* chrome.storage.local cortexflow_task_type
  sigCount,                \* _sigCount, per overlay (tab)
  cooldownUntil,           \* _cooldownUntil
  inBreakdown,             \* _inBreakdown
  recoveryCount,           \* _recoveryCount
  currentTask,             \* _currentTask
  pendingGets,             \* some storage.get callback of runGraduatedInterventions has not run yet
  previousRiskLevel,
  currentRiskLevel,
  isBreakdownActive,
  breakdownCooldownUntil,
  bannerTimers,            \* due times of the 15 s auto-dismiss timeouts, oldest first
  focusCheckShown,         \* #cf-banner is visible and holds the "Yes, focused" button
  hideTimers,              \* due times of the 12 s / 15 s timeouts that hide #cf-banner
  panelAttribution,        \* the key shown in #cf-attribution (NoKey: the dash)
  bannerReason,            \* topKey of the breakdown banner on the page (NoKey: no banner, or no key)
  last,                    \* observation of the most recent processed result, per overlay
  lastFiredAt,             \* observation: time of the most recent firing, per channel
  lastDismissAt,           \* observation: time of the session's most recent banner dismissal
  sessionId,               \* background: sessionId (0 = null)
  storedSessionId,         \* chrome.storage.local cortexflow_session_id (0 = absent)
  sessionsStarted,         \* backend: number of sessions started, the last session id given out
  activeTabId,             \* the tab chrome.tabs.query({active: true}) returns
  sampled,                 \* per tab: the telemetry timer has fired in the current interval
  req,                     \* per tab: the SEND_TELEMETRY request of the current interval
  results,                 \* backend: the InferenceResults produced, in order
  clearPending,            \* storage.onChanged events that report the session keys cleared
  ended,                   \* observation: ids of the sessions that were ended
  processed,               \* observation: per overlay and result, how often it was processed
  buffer,                  \* website: aggregator.buffer
  summary,                 \* website: the last TenMinSummary obtained, NoSummary once the page cleared it
  activeSession,           \* website: id of SessionProvider's activeSession (0 = null)
  webSessionsStarted,      \* backend: number of sessions the website has started
  payloads,                \* input: the payloads that reach the page, repeated in this order
  pushedCount,             \* observation: pushes since the window was last reset
  bufferSession,           \* observation: for each entry of buffer, the session of its result
  taskType,                \* background: taskType
  tabSwitchCount,          \* background: tabSwitchCount
  sessionStartTime,        \* background: sessionStartTime (0 = null)
  storedActive,            \* chrome.storage.local cortexflow_session_active
  storedStart,             \* chrome.storage.local cortexflow_session_start (0 = absent)
  storedTabSwitches,       \* chrome.storage.local cortexflow_tab_switches (0 = absent)
  calls,                   \* background: per caller, the START_SESSION call under way and its response
  setPending,              \* storage.onChanged events that report a new cortexflow_session_id
  localHistory,            \* website: localStorage item SESSION_HISTORY_KEY
  localActive,             \* website: localStorage item ACTIVE_SESSION_KEY
  lastRead,                \* observation: the item readLocalSessions last read and what it returned
  lastWrite,               \* observation: the session writeLocalSession was last given
  lastRestore,             \* observation: the item SessionProvider last started from and its activeSession
  bootFlag,                \* chrome.storage.local __cf_boot_reload
  bootPhase,               \* per tab: how far cortexflowBootReload of the tab's content script has come
  reloads,                 \* observation: calls of chrome.runtime.reload
  interventionHistory,     \* chrome.storage.local intervention_history, oldest entry first
  backendActive,           \* backend: the session /api/sessions/active/ reports for the user (0 = none)
  stopPending,             \* background: ids whose POST /api/sessions/stop/ of endSession is under way
  polling,                 \* background: the interval of startActiveSessionPolling is set
  pollPhase,               \* background: how far the interval's callback has come
  backendTask,             \* backend: task_type of the session backendActive
  backendStart,            \* backend: start_time of the session backendActive
  entryTimes,              \* website: for each entry of buffer, its timestamp
  entryResult,             \* observation: for each entry of buffer, the number of its result
  redAlert,                \* website: redAlert.active of the report page
  showExercise,            \* website: showExercise of the report page
  alertDismissed,          \* website: alertDismissedRef.current
  nextPollAt,              \* website: when the interval pollId fires next
  latestInference,         \* website: localStorage item cortexflow_latest_inference
  resultCount,             \* observation: results that were sent or stored for the report page
  bridge,                  \* website: messages posted by syncSessionToExtension, not yet handled
  changes                  \* storage.onChanged events for the session keys, in the order of the writes

dispVars == <<sigCount, cooldownUntil, inBreakdown, recoveryCount>>
bandVars == <<previousRiskLevel, currentRiskLevel, isBreakdownActive, breakdownCooldownUntil>>
viewVars == <<focusCheckShown, hideTimers>>
obsVars == <<last, lastFiredAt, lastDismissAt>>
attrVars == <<panelAttribution, bannerReason>>
overlayVars == <<dispVars, bandVars, viewVars, attrVars, currentTask, pendingGets, bannerTimers,
                 obsVars, interventionHistory>>
envVars == <<now, ticks, mainChan, storedTask>>
pipeVars == <<sessionId, storedSessionId, sessionsStarted, activeTabId, sampled, req, results,
              clearPending, ended, processed>>
webVars == <<buffer, summary, activeSession, webSessionsStarted, payloads, pushedCount,
             bufferSession>>
workerVars == <<taskType, tabSwitchCount, sessionStartTime, storedActive, storedStart,
                storedTabSwitches, calls, setPending>>
storeVars == <<localHistory, localActive, lastRead, lastWrite, lastRestore>>
bootVars == <<bootFlag, bootPhase, reloads>>
pollVars == <<backendActive, stopPending, polling, pollPhase, backendTask, backendStart>>
reportVars == <<entryTimes, entryResult, redAlert, showExercise, alertDismissed, nextPollAt>>
inferVars == <<latestInference, resultCount>>
syncVars == <<bridge, changes>>
vars == <<envVars, overlayVars, pipeVars, webVars, workerVars, storeVars, bootVars, pollVars,
          reportVars, inferVars, syncVars>>


ZeroCh == [c \in Chan |-> 0]
FalseCh == [c \in Chan |-> FALSE]

\* The popups (or popup windows) that send START_SESSION
Callers == 1..MaxCalls

\* No START_SESSION call under way
IdleCall == [phase |-> "idle", task |-> "general", response |-> "none"]

\* A START_SESSION call that has given sendResponse its answer
Answered(response) == [IdleCall EXCEPT !.phase = "answered", !.response = response]

\* No SEND_TELEMETRY request under way
IdleReq == [phase |-> "idle", sid |-> 0, rid |-> 0, data |-> 0]

NoRun ==
  [ fired |-> ZeroCh, sinceFired |-> ZeroCh,
    spike |-> FalseCh, prevSpike |-> FalseCh, atFloor |-> FalseCh,
    inBreakdownBefore |-> FALSE, lowStreak |-> 0, shown |-> FALSE ]

\* ------------------------------------------------------------------------
\* Inputs
\* ------------------------------------------------------------------------
\* One value per level of the general floors (level 0, 1, 2, 3), each exactly
\* on a floor so that the >= comparisons are exercised at their boundary.
LevelVals ==
  [instab |-> <<0, 50, 65, 75>>, drift |-> <<0, 50, 65, 75>>, fatigue |-> <<0, 60, 75, 85>>]

NextChan(c) == CASE c = "instab" -> "drift" [] c = "drift" -> "fatigue" [] OTHER -> "instab"

\* Channel values of a result: channel main at level a, the channel after it
\* at level b, the third channel silent.
ChanVals(main, a, b) ==
  [c \in Chan |-> IF c = main THEN LevelVals[c][a + 1]
                     ELSE IF c = NextChan(main) THEN LevelVals[c][b + 1]
                     ELSE 0]

\* A result's attribution: whether the field holds an object, and the
\* object's Object.entries, each <<key, contribution>>
NoAttribution == [object |-> FALSE, entries |-> <<>>]

MkResult(v, risk, bi) ==
  [ error |-> FALSE, instability |-> v["instab"], drift |-> v["drift"], fatigue |-> v["fatigue"],
    risk |-> risk, breakdown_imminent |-> bi, attribution |-> NoAttribution ]

ErrorResult ==
  [ error |-> TRUE, instability |-> Null, drift |-> Null, fatigue |-> Null,
    risk |-> Null, breakdown_imminent |-> FALSE, attribution |-> NoAttribution ]

\* Results fed to the dispatcher in a session whose two non-silent channels are
\* main and the one after it: every level of main, with the other silent or at
\* level 3, with risk exactly on the
\* low-risk threshold of the recovery gate, two results just below it, and an
\* error response.
Results(main) ==
  { MkResult(ChanVals(main, a, b), 35, FALSE) : a \in 0..3, b \in {0, 3} }
    \cup { MkResult(ChanVals(main, a, 0), 34, FALSE) : a \in {0, 3} }
    \cup {ErrorResult}

\* <<risk, breakdown_imminent>>: below and on the low-risk threshold, on the
\* coding red floor (yellow for the other tasks), on the general red floor,
\* and a low risk flagged breakdown_imminent.
RiskInputs == {<<34, FALSE>>, <<34, TRUE>>, <<35, FALSE>>, <<50, FALSE>>, <<65, FALSE>>}

\* Results fed to the band / banner machine: every risk input, with the main
\* channel silent or at level 3.
BandResults(main) ==
  { MkResult(ChanVals(main, a, 0), rb[1], rb[2]) : a \in {0, 3}, rb \in RiskInputs }
    \cup {ErrorResult}

\* The input sets, per main channel
ResultsOf == [c \in Chan |-> Results(c)]
BandResultsOf == [c \in Chan |-> BandResults(c)]

TaskInputs == {"general", "Coding", "Research"}

TypeOK ==
  /\ bridge \in Seq([id : Nat, task : TaskInputs])
  /\ changes \in Seq({"set", "clear"})
  /\ entryTimes \in Seq(Nat) /\ Len(entryTimes) = Len(buffer)
  /\ entryResult \in Seq(Nat) /\ Len(entryResult) = Len(buffer)
  /\ redAlert \in BOOLEAN /\ showExercise \in BOOLEAN /\ alertDismissed \in BOOLEAN
  /\ nextPollAt \in Nat
  /\ latestInference \in [id : Nat, risk : Nat \cup {Null}]
  /\ resultCount \in Nat
  /\ now \in Nat /\ ticks \in 0..MaxTicks /\ mainChan \in Chan
  /\ storedTask \in TaskInputs \cup {NoTask}
  /\ sigCount \in [Tabs -> [Chan -> 0..MaxCount]]
  /\ cooldownUntil \in [Tabs -> [Chan -> Nat]]
  /\ inBreakdown \in [Tabs -> BOOLEAN]
  /\ recoveryCount \in [Tabs -> 0..RecoveryNeeded]
  /\ pendingGets \in [Tabs -> BOOLEAN]
  /\ previousRiskLevel \in [Tabs -> {"green", "yellow", "red"}]
  /\ currentRiskLevel \in [Tabs -> {"green", "yellow", "red"}]
  /\ isBreakdownActive \in [Tabs -> BOOLEAN]
  /\ breakdownCooldownUntil \in [Tabs -> Nat]
  /\ focusCheckShown \in [Tabs -> BOOLEAN]
  /\ sessionId \in 0..(sessionsStarted + webSessionsStarted)
  /\ storedSessionId \in 0..(sessionsStarted + webSessionsStarted)
  /\ sessionsStarted \in Nat
  /\ activeTabId \in Tabs
  /\ sampled \in [Tabs -> BOOLEAN]
  /\ \A t \in Tabs : req[t].phase \in {"idle", "sent", "fetch", "forward", "respond", "failed"}
  /\ Len(results) <= MaxResults
  /\ clearPending \in Nat
  /\ ended \subseteq 1..(sessionsStarted + webSessionsStarted)
  /\ processed \in [Tabs -> [1..MaxResults -> 0..2]]
  /\ taskType \in TaskInputs /\ tabSwitchCount \in Nat /\ sessionStartTime \in Nat
  /\ storedActive \in BOOLEAN /\ storedStart \in Nat /\ storedTabSwitches \in Nat
  /\ \A k \in Callers : calls[k].phase \in {"idle", "loadUserId", "fetch", "answered"}
  /\ setPending \in Nat
  /\ interventionHistory \in Seq([t : Nat, chan : Chan, level : {2, 3}])
  /\ backendActive \in 0..(sessionsStarted + webSessionsStarted)
  /\ stopPending \subseteq ended
  /\ polling \in BOOLEAN
  /\ pollPhase \in {"idle", "fetch"}
  /\ backendStart \in Nat

InitInstalled ==
  /\ now = T0
  /\ ticks = 0
  /\ mainChan \in Chan
  /\ storedTask = NoTask
  /\ sigCount = [t \in Tabs |-> ZeroCh]
  /\ cooldownUntil = [t \in Tabs |-> ZeroCh]
  /\ inBreakdown = [t \in Tabs |-> FALSE]
  /\ recoveryCount = [t \in Tabs |-> 0]
  /\ currentTask = [t \in Tabs |-> "general"]
  /\ pendingGets = [t \in Tabs |-> FALSE]
  /\ previousRiskLevel = [t \in Tabs |-> "green"]
  /\ currentRiskLevel = [t \in Tabs |-> "green"]
  /\ isBreakdownActive = [t \in Tabs |-> FALSE]
  /\ breakdownCooldownUntil = [t \in Tabs |-> 0]
  /\ bannerTimers = [t \in Tabs |-> <<>>]
  /\ focusCheckShown = [t \in Tabs |-> FALSE]
  /\ hideTimers = [t \in Tabs |-> {}]
  /\ panelAttribution = [t \in Tabs |-> NoKey]
  /\ bannerReason = [t \in Tabs |-> NoKey]
  /\ last = [t \in Tabs |-> NoRun]
  /\ lastFiredAt = [t \in Tabs |-> ZeroCh]
  /\ lastDismissAt = [t \in Tabs |-> 0]
  /\ sessionId = 0
  /\ storedSessionId = 0
  /\ sessionsStarted = 0
  /\ activeTabId = 1
  /\ sampled = [t \in Tabs |-> FALSE]
  /\ req = [t \in Tabs |-> IdleReq]
  /\ results = <<>>
  /\ clearPending = 0
  /\ ended = {}
  /\ processed = [t \in Tabs |-> [r \in 1..MaxResults |-> 0]]
  /\ taskType = "general"
  /\ tabSwitchCount = 0
  /\ sessionStartTime = 0
  /\ storedActive = FALSE
  /\ storedStart = 0
  /\ storedTabSwitches = 0
  /\ calls = [k \in Callers |-> IdleCall]
  /\ setPending = 0
  /\ bootFlag = FALSE
  /\ bootPhase = [t \in Tabs |-> "idle"]
  /\ reloads = 0
  /\ backendActive = 0
  /\ stopPending = {}
  /\ polling = TRUE
  /\ pollPhase = "idle"
  /\ backendTask = "general"
  /\ backendStart = 0
  /\ bridge = <<>>
  /\ changes = <<>>

\* The extension before its first intervention
InitExtension == InitInstalled /\ interventionHistory = <<>>

\* ------------------------------------------------------------------------
\* Website: inputs of the report page
\* ------------------------------------------------------------------------
MAX_ENTRIES == 120

\* Payloads of the INFERENCE_RESULT messages that reach the page, in
\* hundredths; Null is an absent field
MixedPayloads == <<
  [risk |-> 30, instability |-> 40, drift |-> 40, fatigue |-> 10],
  [risk |-> 33, instability |-> Null, drift |-> 33, fatigue |-> 33],
  [risk |-> 40, instability |-> 20, drift |-> 20, fatigue |-> 45] >>

TrendSpan == 3
TrendEpsilon == 2

\* Payloads that carry a risk only: a risk that starts at RampStart and moves
\* by one of RampDeltas from each message to the next
RampStart == 50
RampDeltas == {0 - 3, 0 - 1, 0, 1, 3}
RampLow == RampStart - (2 * TrendSpan - 1) * 3
RampHigh == RampStart + (2 * TrendSpan - 1) * 3

RampPayloads ==
  [k \in 1..(RampHigh - RampLow + 1) |->
     [risk |-> RampLow + k - 1, instability |-> Null, drift |-> Null, fatigue |-> Null]]

PagePayloads == MixedPayloads \o RampPayloads

\* The payloads arrive in a repeating order chosen at the start; the period
\* is the number of entries computeTrend looks at
PatternLen == 2 * TrendSpan
PayloadPatterns == [1..PatternLen -> 1..Len(MixedPayloads)]

SteadyPattern == [i \in 1..PatternLen |-> 1 + (i % Len(MixedPayloads))]

RECURSIVE RampRisk(_, _)
\* The risk of the i-th message of a ramp with the given deltas
RampRisk(deltas, i) ==
  IF i = 1 THEN RampStart ELSE RampRisk(deltas, i - 1) + deltas[i - 1]

RampPatterns ==
  { [i \in 1..PatternLen |-> Len(MixedPayloads) + RampRisk(deltas, i) - RampLow + 1] :
      deltas \in [1..(PatternLen - 1) -> RampDeltas] }

\* The page's summary state when it is null
NoSummary == [entryCount |-> Null]

\* A localStorage item: absent, a string that is not JSON, or the JSON text
\* of a number, of an object (id: its id when that is a UUID, else 0) or of
\* an array
NoItem == [kind |-> "missing", items |-> <<>>, id |-> 0]
CorruptItem == [kind |-> "corrupt", items |-> <<>>, id |-> 0]
JsonNumber == [kind |-> "number", items |-> <<>>, id |-> 0]
JsonObject(id) == [kind |-> "object", items |-> <<>>, id |-> id]
JsonArray(items) == [kind |-> "array", items |-> items, id |-> 0]

\* A completed Session as the history keeps it, and a null array element
Session(id, minutes) == [object |-> TRUE, id |-> id, duration_minutes |-> minutes]
NullElement == [object |-> FALSE, id |-> 0, duration_minutes |-> 0]

\* Nothing was read or restored yet
NotRead == [done |-> FALSE, from |-> NoItem, value |-> <<>>]
NotRestored == [done |-> FALSE, from |-> NoItem, session |-> 0]

\* The interval of the report page's poll, and the age beyond which the
\* poll takes the last entry for an older result
POLL_MS == 5000
DEDUP_MS == 4000

\* localStorage holds no cortexflow_latest_inference
NoInference == [id |-> 0, risk |-> Null]

InitPage ==
  /\ entryTimes = <<>>
  /\ entryResult = <<>>
  /\ redAlert = FALSE
  /\ showExercise = FALSE
  /\ alertDismissed = FALSE
  /\ nextPollAt = T0 + POLL_MS
  /\ latestInference = NoInference
  /\ resultCount = 0
  /\ buffer = <<>>
  /\ summary = NoSummary
  /\ pushedCount = 0
  /\ bufferSession = <<>>
  /\ lastRead = NotRead
  /\ lastWrite = NullElement
  /\ lastRestore = NotRestored

Init ==
  /\ InitExtension
  /\ InitPage
  /\ activeSession = 0
  /\ webSessionsStarted = 0
  /\ localHistory = NoItem
  /\ localActive = NoItem
  /\ payloads = SteadyPattern

\* ------------------------------------------------------------------------
\* overlay.js: the graduated intervention dispatcher
\* ------------------------------------------------------------------------

\* Variant: the decrement is not floored at 0
NextSigCount_NoFloor(cnt, val, floor1) ==
  IF val >= floor1 THEN cnt + 1 ELSE cnt - 1

\* _sigCount.x = v >= thr.x[0] ? _sigCount.x + 1 : Math.max(0, _sigCount.x - 1)
NextSigCount(cnt, val, floor1) ==
  IF val >= floor1 THEN cnt + 1 ELSE Max(0, cnt - 1)

\* Variant: level 1 is treated as level 2
ChannelFire_Level1Fires(lv, cnt, t, cdUntil) ==
  IF (lv = 1 \/ lv = 2) /\ t > cdUntil THEN 2
  ELSE IF lv = 3 /\ cnt >= SustainNeeded /\ t > cdUntil THEN 3
  ELSE 0

\* Variant: level 3 fires from the first interval at or above its floor
ChannelFire_NoSustain(lv, cnt, t, cdUntil) ==
  IF lv = 1 THEN 0
  ELSE IF lv = 2 /\ t > cdUntil THEN 2
  ELSE IF lv = 3 /\ cnt >= 1 /\ t > cdUntil THEN 3
  ELSE 0

\* Variant: level 3 does not look at the channel's cooldown
ChannelFire_NoCooldownL3(lv, cnt, t, cdUntil) ==
  IF lv = 1 THEN 0
  ELSE IF lv = 2 /\ t > cdUntil THEN 2
  ELSE IF lv = 3 /\ cnt >= SustainNeeded THEN 3
  ELSE 0

\* The if / else-if chain of one channel: the level of the intervention it
\* fires (0 when it fires none).
ChannelFire(lv, cnt, t, cdUntil) ==
  IF lv = 1 THEN 0
  ELSE IF lv = 2 /\ t > cdUntil THEN 2
  ELSE IF lv = 3 /\ cnt >= SustainNeeded /\ t > cdUntil THEN 3
  ELSE 0

\* Variant: the cooldown expires one millisecond early
NextCooldown_Short(ch, firedLv, t, cdUntil) ==
  IF firedLv # 0 THEN t + TYPE_COOLDOWNS[ch] - 1 ELSE cdUntil

\* _cooldownUntil.x = now + TYPE_COOLDOWNS.x on a firing
NextCooldown(ch, firedLv, t, cdUntil) ==
  IF firedLv # 0 THEN t + TYPE_COOLDOWNS[ch] ELSE cdUntil

\* Variant: a high-risk window does not reset the recovery counter
RecoveryStep_NoReset(risk, rc) ==
  IF risk < LowRiskBelow
  THEN IF rc + 1 >= RecoveryNeeded
       THEN [inBreakdown |-> FALSE, recoveryCount |-> 0]
       ELSE [inBreakdown |-> TRUE, recoveryCount |-> rc + 1]
  ELSE [inBreakdown |-> TRUE, recoveryCount |-> rc]

\* The re-entry block: two consecutive low-risk windows leave breakdown mode
\* Variant: leaving breakdown mode keeps the count
RecoveryStep_KeepsCount(risk, rc) ==
  IF risk < LowRiskBelow
  THEN IF rc + 1 >= RecoveryNeeded
       THEN [inBreakdown |-> FALSE, recoveryCount |-> rc + 1]
       ELSE [inBreakdown |-> TRUE, recoveryCount |-> rc + 1]
  ELSE [inBreakdown |-> TRUE, recoveryCount |-> 0]

RecoveryStep(risk, rc) ==
  IF risk < LowRiskBelow
  THEN IF rc + 1 >= RecoveryNeeded
       THEN [inBreakdown |-> FALSE, recoveryCount |-> 0]
       ELSE [inBreakdown |-> TRUE, recoveryCount |-> rc + 1]
  ELSE [inBreakdown |-> TRUE, recoveryCount |-> 0]

\* Whether #cf-banner holds the "Yes, focused" button after the three channel
\* blocks ran in source order: showSoftFocusCheck (drift level 2) puts it
\* there, a later showBanner overwrites the banner's text, showBreathingTimer
\* uses an element of its own.
ViewAfter(view, fired) ==
  LET v1 == IF fired["instab"] # 0 THEN FALSE ELSE view
      v2 == IF fired["drift"] = 2 THEN TRUE
            ELSE IF fired["drift"] = 3 THEN FALSE ELSE v1
  IN  IF fired["fatigue"] = 2 THEN FALSE ELSE v2

\* The setTimeout calls of showBanner (12 s) and showSoftFocusCheck (15 s)
HideTimersAfter(timers, fired, t) ==
  timers
    \cup (IF fired["instab"] # 0 \/ fired["drift"] = 3 \/ fired["fatigue"] = 2
          THEN {t + MsgBannerHideMs} ELSE {})
    \cup (IF fired["drift"] = 2 THEN {t + FocusBannerHideMs} ELSE {})

\* ------------------------------------------------------------------------
\* overlay.js: the risk band and the breakdown banner
\* ------------------------------------------------------------------------

RiskBand(risk, breakdown_imminent, task) ==
  IF risk >= RedAtFor(task) \/ breakdown_imminent THEN "red"
  ELSE IF risk >= YellowAt THEN "yellow"
  ELSE "green"

\* Variant: the banner cooldown is not looked at
ShouldShowBanner_NoCooldown(prev, cur, t, cdUntil, active) ==
  /\ cur = "red" /\ prev # "red"
  /\ ~active

\* justEnteredRed && cooldownExpired && !isBreakdownActive
ShouldShowBanner(prev, cur, t, cdUntil, active) ==
  /\ cur = "red" /\ prev # "red"
  /\ t > cdUntil
  /\ ~active

RECURSIVE ReduceTop(_, _)
\* entries.reduce(function(a, b) { return a[1] > b[1] ? a : b; }) over the
\* first n entries
ReduceTop(entries, n) ==
  IF n = 1 THEN entries[1]
  ELSE LET a == ReduceTop(entries, n - 1)
           b == entries[n]
       IN  IF a[2] > b[2] THEN a ELSE b

\* showBreakdownBanner: topKey
bannerTopKey(attribution) ==
  IF ~attribution.object \/ attribution.entries = <<>> THEN NoKey
  ELSE ReduceTop(attribution.entries, Len(attribution.entries))[1]

\* An entry put into a sequence sorted by "(a, b) => b[1] - a[1]", behind
\* the entries that do not compare after it
InsertEntry(sorted, x) ==
  LET before == { i \in 0..Len(sorted) : \A j \in 1..i : sorted[j][2] >= x[2] }
      n == CHOOSE i \in before : \A k \in before : k <= i
  IN  SubSeq(sorted, 1, n) \o <<x>> \o SubSeq(sorted, n + 1, Len(sorted))

RECURSIVE SortEntries(_, _)
SortEntries(entries, n) ==
  IF n = 0 THEN <<>> ELSE InsertEntry(SortEntries(entries, n - 1), entries[n])

\* updateOverlay: topKey of the panel
panelTopKey(attribution) ==
  LET sorted == SortEntries(attribution.entries, Len(attribution.entries))
  IN  IF sorted = <<>> THEN NoKey ELSE sorted[1][1]

\* Variant: the band is not advanced while the dispatcher is in breakdown mode
\* overlay.js: the length logIntervention trims the stored history to
LOG_KEEP == 100

\* CF_CONFIG.MAX_INTERVENTION_HISTORY
MAX_INTERVENTION_HISTORY == 50

\* Array.prototype.splice(0, n): the array without its first n elements
DropOldest(history, n) == SubSeq(history, n + 1, Len(history))

\* logIntervention's storage.get callback: pushes the entry onto the array it
\* was handed, trims the array from the front and stores it
logIntervention(history, entry) ==
  LET pushed == Append(history, entry)
  IN IF Len(pushed) > LOG_KEEP THEN DropOldest(pushed, Len(pushed) - LOG_KEEP) ELSE pushed

\* The logIntervention calls of one run of the dispatcher: one entry per
\* channel that fired at level 2 or 3, in the order instability, drift,
\* fatigue
FiredEntries(fired, t) ==
  LET chans == SelectSeq(ChanOrder, LAMBDA c : fired[c] # 0)
  IN [k \in 1..Len(chans) |-> [t |-> t, chan |-> chans[k], level |-> fired[chans[k]]]]

\* The arrays the calls of one run can leave in storage.  Each call is a
\* storage.get whose callback runs later; storage serves the gets in the
\* order of the calls and the callbacks run in that order, but a get may be
\* served before or after the set of an earlier callback.  unread: the
\* entries whose get is not served yet; got: the arrays handed to the
\* callbacks that have not run yet, with their entries.
RECURSIVE LogOutcomes(_, _, _)
LogOutcomes(stored, unread, got) ==
  IF unread = <<>> /\ got = <<>> THEN {stored}
  ELSE (IF unread = <<>> THEN {}
        ELSE LogOutcomes(stored, Tail(unread),
                         Append(got, [history |-> stored, entry |-> Head(unread)])))
       \cup
       (IF got = <<>> THEN {}
        ELSE LogOutcomes(logIntervention(Head(got).history, Head(got).entry), unread, Tail(got)))

LogFired(history, fired, t) == LogOutcomes(history, FiredEntries(fired, t), <<>>)

handleInferenceResult_SkipInBreakdown(tab, data) ==
  LET risk == OrZero(data.risk)
      prev == currentRiskLevel[tab]
      cur  == RiskBand(risk, data.breakdown_imminent, currentTask[tab])
      show == ShouldShowBanner(prev, cur, now, breakdownCooldownUntil[tab], isBreakdownActive[tab])
  IN
  IF inBreakdown[tab]
  THEN UNCHANGED <<bandVars, bannerTimers, bannerReason>>
  ELSE /\ show => Len(bannerTimers[tab]) < MaxTimers
       /\ bannerReason' = [bannerReason EXCEPT ![tab] =
                             IF show THEN bannerTopKey(data.attribution) ELSE @]
       /\ previousRiskLevel' = [previousRiskLevel EXCEPT ![tab] = prev]
       /\ currentRiskLevel' = [currentRiskLevel EXCEPT ![tab] = cur]
       /\ isBreakdownActive' = [isBreakdownActive EXCEPT ![tab] = IF show THEN TRUE ELSE @]
       /\ bannerTimers' = [bannerTimers EXCEPT ![tab] =
                             IF show THEN Append(@, now + BannerAutoDismissMs) ELSE @]
       /\ UNCHANGED breakdownCooldownUntil

\* handleInferenceResult: the band moves, and the breakdown banner is shown
\* (showBreakdownBanner: isBreakdownActive = true, 15 s auto-dismiss timeout)
\* when the band just entered red.
handleInferenceResult(tab, data) ==
  LET risk == OrZero(data.risk)
      prev == currentRiskLevel[tab]
      cur  == RiskBand(risk, data.breakdown_imminent, currentTask[tab])
      show == ShouldShowBanner(prev, cur, now, breakdownCooldownUntil[tab], isBreakdownActive[tab])
  IN
  /\ show => Len(bannerTimers[tab]) < MaxTimers
  /\ bannerReason' = [bannerReason EXCEPT ![tab] =
                        IF show THEN bannerTopKey(data.attribution) ELSE @]
  /\ previousRiskLevel' = [previousRiskLevel EXCEPT ![tab] = prev]
  /\ currentRiskLevel' = [currentRiskLevel EXCEPT ![tab] = cur]
  /\ isBreakdownActive' = [isBreakdownActive EXCEPT ![tab] = IF show THEN TRUE ELSE @]
  /\ bannerTimers' = [bannerTimers EXCEPT ![tab] =
                        IF show THEN Append(@, now + BannerAutoDismissMs) ELSE @]
  /\ UNCHANGED breakdownCooldownUntil

\* runGraduatedInterventions for a result that is neither missing nor an
\* error: the storage refresh is issued, handleInferenceResult runs, then the
\* re-entry block or the three channel blocks.
runGraduatedInterventions(tab, data) ==
  LET thr    == ThresholdsFor(currentTask[tab])
      val    == [instab |-> OrZero(data.instability), drift |-> OrZero(data.drift),
                 fatigue |-> OrZero(data.fatigue)]
      risk   == OrZero(data.risk)
      inB    == inBreakdown[tab]
      lv     == [c \in Chan |-> getSignalLevel(val[c], thr[c])]
      rec    == RecoveryStep(risk, recoveryCount[tab])
      cnt    == [c \in Chan |-> NextSigCount(sigCount[tab][c], val[c], thr[c][1])]
      fired  == [c \in Chan |->
                   IF inB THEN 0 ELSE ChannelFire(lv[c], cnt[c], now, cooldownUntil[tab][c])]
      anyL3  == \E c \in Chan : fired[c] = 3
      old    == last[tab]
  IN
  /\ ~inB => \A c \in Chan : cnt[c] <= MaxCount
  /\ pendingGets' = [pendingGets EXCEPT ![tab] = TRUE]
  /\ handleInferenceResult(tab, data)
  /\ IF inB
     THEN /\ inBreakdown' = [inBreakdown EXCEPT ![tab] = rec.inBreakdown]
          /\ recoveryCount' = [recoveryCount EXCEPT ![tab] = rec.recoveryCount]
          /\ UNCHANGED <<sigCount, cooldownUntil, viewVars>>
     ELSE /\ sigCount' = [sigCount EXCEPT ![tab] = cnt]
          /\ cooldownUntil' = [cooldownUntil EXCEPT ![tab] =
                 [c \in Chan |-> NextCooldown(c, fired[c], now, cooldownUntil[tab][c])]]
          /\ inBreakdown' = [inBreakdown EXCEPT ![tab] = anyL3]
          /\ focusCheckShown' = [focusCheckShown EXCEPT ![tab] = ViewAfter(@, fired)]
          /\ hideTimers' = [hideTimers EXCEPT ![tab] = HideTimersAfter(@, fired, now)]
          /\ UNCHANGED recoveryCount
  /\ last' = [last EXCEPT ![tab] =
       [ fired |-> fired,
         sinceFired |-> [c \in Chan |->
             IF fired[c] # 0 /\ lastFiredAt[tab][c] # 0 THEN now - lastFiredAt[tab][c] ELSE 0],
         spike |-> [c \in Chan |-> sigCount[tab][c] = 0 /\ lv[c] = 3],
         prevSpike |-> old.spike,
         atFloor |-> [c \in Chan |-> val[c] >= thr[c][1]],
         inBreakdownBefore |-> inB,
         lowStreak |-> IF inB /\ risk < LowRiskBelow
                       THEN (IF old.lowStreak >= RecoveryNeeded THEN RecoveryNeeded
                             ELSE old.lowStreak + 1)
                       ELSE 0,
         shown |-> isBreakdownActive'[tab] /\ ~isBreakdownActive[tab] ]]
  /\ lastFiredAt' = [lastFiredAt EXCEPT ![tab] =
       [c \in Chan |-> IF fired[c] # 0 THEN now ELSE lastFiredAt[tab][c]]]
  /\ interventionHistory' \in LogFired(interventionHistory, fired, now)
  /\ UNCHANGED <<currentTask, lastDismissAt>>

\* updateOverlay: returns at once on a missing or error result, else fills the
\* panel and runs the dispatcher.
updateOverlay(tab, data) ==
  IF data.error
  THEN UNCHANGED overlayVars
  ELSE /\ panelAttribution' = [panelAttribution EXCEPT ![tab] =
              IF data.attribution.object THEN panelTopKey(data.attribution) ELSE @]
       /\ runGraduatedInterventions(tab, data)

\* The callback of the chrome.storage.local.get issued by runGraduatedInterventions
TaskRefreshCallback(tab) ==
  /\ pendingGets[tab]
  /\ \E more \in BOOLEAN : pendingGets' = [pendingGets EXCEPT ![tab] = more]
  /\ currentTask' = [currentTask EXCEPT ![tab] =
        IF storedTask # NoTask THEN ToLowerCase(storedTask) ELSE @]
  /\ UNCHANGED <<workerVars, storeVars, bootVars, reportVars, inferVars, pollVars, syncVars, webVars, pipeVars, interventionHistory, now, ticks,
                 mainChan, storedTask, dispVars, bandVars, viewVars,
                 attrVars, bannerTimers, obsVars>>

\* Variant: dismissing the banner sets no cooldown
dismissBannerEffect_NoCooldown(tab) ==
  /\ isBreakdownActive' = [isBreakdownActive EXCEPT ![tab] = FALSE]
  /\ lastDismissAt' = [lastDismissAt EXCEPT ![tab] = now]
  /\ bannerReason' = [bannerReason EXCEPT ![tab] = NoKey]
  /\ UNCHANGED <<breakdownCooldownUntil, previousRiskLevel, currentRiskLevel>>

\* dismissBanner
dismissBannerEffect(tab) ==
  /\ isBreakdownActive' = [isBreakdownActive EXCEPT ![tab] = FALSE]
  /\ breakdownCooldownUntil' = [breakdownCooldownUntil EXCEPT ![tab] = now + BannerCooldownMs]
  /\ lastDismissAt' = [lastDismissAt EXCEPT ![tab] = now]
  /\ bannerReason' = [bannerReason EXCEPT ![tab] = NoKey]
  /\ UNCHANGED <<previousRiskLevel, currentRiskLevel>>

\* Click on the banner's "Got it, refocusing" button
DismissClick(tab) ==
  /\ isBreakdownActive[tab]
  /\ dismissBannerEffect(tab)
  /\ UNCHANGED <<workerVars, storeVars, bootVars, reportVars, inferVars, pollVars, syncVars, webVars, pipeVars, interventionHistory, now, ticks,
                 mainChan, storedTask, dispVars, viewVars,
                 panelAttribution, currentTask, pendingGets,
                 bannerTimers, last, lastFiredAt>>

\* The 15 s timeout set by showBreakdownBanner: if (isBreakdownActive) dismissBanner()
AutoDismissTimer(tab) ==
  /\ bannerTimers[tab] # <<>>
  /\ now >= Head(bannerTimers[tab])
  /\ bannerTimers' = [bannerTimers EXCEPT ![tab] = Tail(@)]
  /\ IF isBreakdownActive[tab]
     THEN dismissBannerEffect(tab)
     ELSE UNCHANGED <<bandVars, lastDismissAt, bannerReason>>
  /\ UNCHANGED <<workerVars, storeVars, bootVars, reportVars, inferVars, pollVars, syncVars, webVars, pipeVars, interventionHistory, now, ticks,
                 mainChan, storedTask, dispVars, viewVars,
                 panelAttribution, currentTask, pendingGets,
                 last, lastFiredAt>>

\* Click on "Yes, focused": hideBanner(); _sigCount.drift = 0.  (hideBanner
\* alone, from the close button or Escape, only takes the button away; a user
\* who never clicks it leaves the same states, so it has no action here.)
FocusYesClick(tab) ==
  /\ focusCheckShown[tab]
  /\ focusCheckShown' = [focusCheckShown EXCEPT ![tab] = FALSE]
  /\ sigCount' = [sigCount EXCEPT ![tab]["drift"] = 0]
  /\ UNCHANGED <<workerVars, storeVars, bootVars, reportVars, inferVars, pollVars, syncVars, webVars, pipeVars, interventionHistory, now, ticks,
                 mainChan, storedTask, cooldownUntil, inBreakdown,
                 recoveryCount, bandVars, attrVars,
                 hideTimers, currentTask, pendingGets, bannerTimers, obsVars>>

\* The SESSION_ENDED branch of the overlay's runtime.onMessage listener
sessionEndedEffect(tab) ==
  /\ inBreakdown' = [inBreakdown EXCEPT ![tab] = FALSE]
  /\ recoveryCount' = [recoveryCount EXCEPT ![tab] = 0]
  /\ sigCount' = [sigCount EXCEPT ![tab] = ZeroCh]
  /\ isBreakdownActive' = [isBreakdownActive EXCEPT ![tab] = FALSE]
  /\ breakdownCooldownUntil' = [breakdownCooldownUntil EXCEPT ![tab] = 0]
  /\ previousRiskLevel' = [previousRiskLevel EXCEPT ![tab] = "green"]
  /\ currentRiskLevel' = [currentRiskLevel EXCEPT ![tab] = "green"]
  /\ last' = [last EXCEPT ![tab] = NoRun]
  /\ lastDismissAt' = [lastDismissAt EXCEPT ![tab] = 0]
  /\ bannerReason' = [bannerReason EXCEPT ![tab] = NoKey]
  /\ UNCHANGED <<cooldownUntil, viewVars, panelAttribution, currentTask, pendingGets, bannerTimers,
                 lastFiredAt, interventionHistory>>

\* ------------------------------------------------------------------------
\* Time
\* ------------------------------------------------------------------------
TimerDues ==
  UNION { { bannerTimers[t][k] : k \in DOMAIN bannerTimers[t] } : t \in Tabs }

\* Date.now() is an input.  The clock visits a fixed schedule of instants
\* chosen on the boundaries of the comparisons the overlay makes: the instant
\* a cooldown started at the previous instant ends, and the millisecond after.
\* A timeout that is due when the clock would move on runs first.  The
\* timeouts that only hide #cf-banner (banner.classList.add("cf-hidden")) and
\* fall due by the new instant run as part of the advance.
ClockAt(k, period) == T0 + ((k + 1) \div 2) * period + (k \div 2)

TickTo(t2) ==
  /\ ticks < MaxTicks
  /\ t2 > now
  /\ \A d \in TimerDues : d > now
  /\ now' = t2
  /\ hideTimers' = [t \in Tabs |-> { h \in hideTimers[t] : h > t2 }]
  /\ focusCheckShown' = [t \in Tabs |->
       IF \E h \in hideTimers[t] : h <= t2 THEN FALSE ELSE focusCheckShown[t]]
  /\ ticks' = ticks + 1
  /\ UNCHANGED <<mainChan, storedTask, dispVars, bandVars, attrVars, currentTask, pendingGets,
                 bannerTimers, obsVars, webVars, reportVars, inferVars, interventionHistory>>

\* The schedule on the cooldown of the session's main channel
Tick == TickTo(ClockAt(ticks + 1, TYPE_COOLDOWNS[mainChan])) /\ UNCHANGED <<pipeVars, workerVars, storeVars, bootVars, reportVars, inferVars, pollVars, syncVars>>

\* The schedule on the banner's cooldown and its auto-dismiss timeout
BandClock == <<BannerCooldownMs + 1, BannerAutoDismissMs,
               BannerAutoDismissMs + BannerCooldownMs, BannerAutoDismissMs + BannerCooldownMs + 1>>

BandClockAt(k) ==
  IF k <= Len(BandClock) THEN T0 + BandClock[k]
  ELSE T0 + BandClock[Len(BandClock)] + (k - Len(BandClock)) * BannerAutoDismissMs

TickBand == TickTo(BandClockAt(ticks + 1)) /\ UNCHANGED <<pipeVars, workerVars, storeVars, bootVars, reportVars, inferVars, pollVars, syncVars>>

\* ------------------------------------------------------------------------
\* The overlay of one tab, driven directly by its inputs
\* ------------------------------------------------------------------------
OverlayTab == 1

DeliverResult(tab, data) ==
  /\ updateOverlay(tab, data)
  /\ UNCHANGED <<workerVars, storeVars, bootVars, reportVars, inferVars, pollVars, syncVars, webVars, envVars, pipeVars>>

SessionEndedMsg(tab) ==
  /\ sessionEndedEffect(tab)
  /\ UNCHANGED <<workerVars, storeVars, bootVars, reportVars, inferVars, pollVars, syncVars, webVars, envVars, pipeVars>>

Next ==
  \/ \E data \in ResultsOf[mainChan] : DeliverResult(OverlayTab, data)
  \/ TaskRefreshCallback(OverlayTab)
  \/ FocusYesClick(OverlayTab)
  \/ SessionEndedMsg(OverlayTab)
  \/ Tick

Spec == Init /\ [][Next]_vars

\* The same overlay fed with results that move the risk band.
NextBand ==
  \/ \E data \in BandResultsOf[mainChan] : DeliverResult(OverlayTab, data)
  \/ TaskRefreshCallback(OverlayTab)
  \/ DismissClick(OverlayTab)
  \/ AutoDismissTimer(OverlayTab)
  \/ SessionEndedMsg(OverlayTab)
  \/ TickBand

InitBand == Init /\ mainChan = "instab"

SpecBand == InitBand /\ [][NextBand]_vars

\* The same overlay fed with results that carry an attribution: up to three
\* signals in the order the backend lists them, each contributing 0.10 or
\* 0.20, with the risk below the low-risk threshold or on the general red floor.
AttributionKeys == <<"switch_rate", "motor_var", "idle_ratio">>

Attributions ==
  {NoAttribution} \cup
  { [object |-> TRUE, entries |-> [i \in 1..n |-> <<AttributionKeys[i], w[i]>>]] :
      n \in 0..Len(AttributionKeys), w \in [1..Len(AttributionKeys) -> {10, 20}] }

AttributionResults ==
  { [MkResult(ZeroCh, risk, FALSE) EXCEPT !.attribution = a] :
      risk \in {34, 65}, a \in Attributions }

NextAttribution ==
  \/ \E data \in AttributionResults : DeliverResult(OverlayTab, data)
  \/ DismissClick(OverlayTab)
  \/ AutoDismissTimer(OverlayTab)
  \/ SessionEndedMsg(OverlayTab)
  \/ TickBand

SpecAttribution == InitBand /\ [][NextAttribution]_vars

\* ------------------------------------------------------------------------
\* The telemetry pipeline: telemetry.js in every tab, the background service
\* worker, the backend, and the two paths into the overlays
\* ------------------------------------------------------------------------

\* The body the backend answers a telemetry POST with: instability at level 3
PipeResults ==
  << MkResult(ChanVals("instab", 3, 0), 35, FALSE) >>

Bump(tab, rid) == [processed EXCEPT ![tab][rid] = @ + 1]

\* telemetry.js: the setInterval callback.  The timer is set when the content
\* script loads and nothing in the session's life clears it; it sends
\* SEND_TELEMETRY whether or not a session is active.
collectAndSend(tab) ==
  /\ ~sampled[tab]
  /\ req[tab].phase = "idle"
  /\ sampled' = [sampled EXCEPT ![tab] = TRUE]
  /\ req' = [req EXCEPT ![tab] = [IdleReq EXCEPT !.phase = "sent"]]
  /\ UNCHANGED <<workerVars, storeVars, bootVars, reportVars, inferVars, pollVars, syncVars, webVars, envVars, overlayVars, sessionId, storedSessionId, sessionsStarted, activeTabId,
                 results, clearPending, ended, processed>>

\* data.cortexflow_task_type || "general"
OrGeneral(task) == IF task = NoTask THEN "general" ELSE task

\* data.cortexflow_session_start || Date.now()
OrNow(start) == IF start = 0 THEN now ELSE start

\* background: sendTelemetry up to its fetch.  A null sessionId is recovered
\* from storage; with none stored the request is answered
\* {success: false, error}.  The POST carries the sessionId read here.
sendTelemetry(tab) ==
  LET sid == IF sessionId # 0 THEN sessionId ELSE storedSessionId IN
  /\ req[tab].phase = "sent"
  /\ IF sid = 0
     THEN /\ req' = [req EXCEPT ![tab].phase = "failed"]
          /\ UNCHANGED <<sessionId, taskType, sessionStartTime>>
     ELSE /\ req' = [req EXCEPT ![tab] = [IdleReq EXCEPT !.phase = "fetch", !.sid = sid]]
          /\ sessionId' = sid
          /\ IF sessionId # 0
             THEN UNCHANGED <<taskType, sessionStartTime>>
             ELSE /\ taskType' = OrGeneral(storedTask)
                  /\ sessionStartTime' = OrNow(storedStart)
  /\ UNCHANGED <<tabSwitchCount, storedActive, storedStart, storedTabSwitches, calls, setPending,
                 storeVars, bootVars, reportVars, inferVars, pollVars, syncVars, webVars, envVars, overlayVars, storedSessionId, sessionsStarted,
                 activeTabId, sampled, results, clearPending, ended, processed>>

\* The backend answers the POST with an InferenceResult, which sendTelemetry
\* saves to storage for the popup.
fetchReturns(tab) ==
  /\ req[tab].phase = "fetch"
  /\ Len(results) < MaxResults
  /\ \E k \in DOMAIN PipeResults :
       req' = [req EXCEPT ![tab].phase = "forward", ![tab].rid = Len(results) + 1,
                          ![tab].data = k]
  /\ results' = Append(results, [session |-> req[tab].sid, interval |-> ticks])
  /\ UNCHANGED <<workerVars, storeVars, bootVars, reportVars, inferVars, pollVars, syncVars, webVars, envVars, overlayVars, sessionId, storedSessionId, sessionsStarted, activeTabId,
                 sampled, clearPending, ended, processed>>

\* The fetch throws: {success: false, error}
fetchFails(tab) ==
  /\ req[tab].phase = "fetch"
  /\ req' = [req EXCEPT ![tab].phase = "failed"]
  /\ UNCHANGED <<workerVars, storeVars, bootVars, reportVars, inferVars, pollVars, syncVars, webVars, envVars, overlayVars, sessionId, storedSessionId, sessionsStarted, activeTabId,
                 sampled, results, clearPending, ended, processed>>

\* sendTelemetry forwards INFERENCE_RESULT to the active tab, whose overlay
\* listener calls updateOverlay(message.payload, ...)
forwardToActiveTab(tab) ==
  /\ req[tab].phase = "forward"
  /\ updateOverlay(activeTabId, PipeResults[req[tab].data])
  /\ processed' = Bump(activeTabId, req[tab].rid)
  /\ req' = [req EXCEPT ![tab].phase = "respond"]
  /\ UNCHANGED <<workerVars, storeVars, bootVars, reportVars, inferVars, pollVars, syncVars, webVars, envVars, sessionId, storedSessionId, sessionsStarted, activeTabId, sampled,
                 results, clearPending, ended>>

\* telemetry.js: the sendMessage callback.  A response without error is
\* raised as the cortexflow-telemetry event, and the overlay of the same tab
\* calls updateOverlay(e.detail.inference).
telemetryResponse(tab) ==
  /\ req[tab].phase \in {"respond", "failed"}
  /\ IF req[tab].phase = "respond"
     THEN /\ updateOverlay(tab, PipeResults[req[tab].data])
          /\ processed' = Bump(tab, req[tab].rid)
     ELSE UNCHANGED <<overlayVars, processed>>
  /\ req' = [req EXCEPT ![tab] = IdleReq]
  /\ UNCHANGED <<workerVars, storeVars, bootVars, reportVars, inferVars, pollVars, syncVars, webVars, envVars, sessionId, storedSessionId, sessionsStarted, activeTabId, sampled,
                 results, clearPending, ended>>

\* The backend numbers the sessions it starts, for the extension and for
\* the website alike
NewSessionId == sessionsStarted + webSessionsStarted + 1

\* The first event of the given kind taken out of the events under way
RECURSIVE Without(_, _)
Without(events, kind) ==
  IF events = <<>> THEN <<>>
  ELSE IF Head(events) = kind THEN Tail(events)
  ELSE <<Head(events)>> \o Without(Tail(events), kind)

\* background: startSession up to its first await (START_SESSION from a
\* popup).  With a session active the call is answered session_already_active.
startSession(k, task) ==
  /\ calls[k].phase = "idle"
  /\ IF sessionId # 0
     THEN calls' = [calls EXCEPT ![k] = Answered("session_already_active")]
     ELSE calls' = [calls EXCEPT ![k] = [phase |-> "loadUserId", task |-> task,
                                         response |-> "none"]]
  /\ UNCHANGED <<storeVars, bootVars, reportVars, inferVars, pollVars, syncVars, webVars, envVars, overlayVars, pipeVars, taskType, tabSwitchCount,
                 sessionStartTime, storedActive, storedStart, storedTabSwitches, setPending>>

\* startSession from the answer of loadUserId (a user is logged in) up to
\* the fetch of /api/sessions/start/
startSessionPost(k) ==
  /\ calls[k].phase = "loadUserId"
  /\ taskType' = calls[k].task
  /\ tabSwitchCount' = 0
  /\ sessionStartTime' = now
  /\ calls' = [calls EXCEPT ![k].phase = "fetch"]
  /\ UNCHANGED <<storeVars, bootVars, reportVars, inferVars, pollVars, syncVars, webVars, envVars, overlayVars, pipeVars, storedActive, storedStart,
                 storedTabSwitches, setPending>>

\* The backend starts a session and answers the fetch; startSession keeps
\* the id and writes the session keys, which raises storage.onChanged.
startSessionReturns(k) ==
  /\ calls[k].phase = "fetch"
  /\ sessionsStarted' = sessionsStarted + 1
  /\ sessionId' = NewSessionId
  /\ storedSessionId' = NewSessionId
  /\ storedTask' = taskType
  /\ storedActive' = TRUE
  /\ storedStart' = sessionStartTime
  /\ setPending' = setPending + 1
  /\ calls' = [calls EXCEPT ![k] = Answered("started")]
  /\ backendActive' = NewSessionId
  /\ backendTask' = taskType
  /\ backendStart' = OrNow(sessionStartTime)
  /\ polling' = FALSE
  /\ changes' = Append(changes, "set")
  /\ UNCHANGED <<bridge, stopPending, pollPhase, storeVars, bootVars, reportVars, inferVars, webVars, now, ticks, mainChan, overlayVars, activeTabId, sampled, req, results,
                 clearPending, ended, processed, taskType, tabSwitchCount, sessionStartTime,
                 storedTabSwitches>>

\* The fetch of /api/sessions/start/ throws: {error}
startSessionFails(k) ==
  /\ calls[k].phase = "fetch"
  /\ calls' = [calls EXCEPT ![k] = Answered("failed")]
  /\ UNCHANGED <<storeVars, bootVars, reportVars, inferVars, pollVars, syncVars, webVars, envVars, overlayVars, pipeVars, taskType, tabSwitchCount,
                 sessionStartTime, storedActive, storedStart, storedTabSwitches, setPending>>

\* The popup's sendMessage callback takes the answer
startSessionAnswered(k) ==
  /\ calls[k].phase = "answered"
  /\ calls' = [calls EXCEPT ![k] = IdleCall]
  /\ UNCHANGED <<storeVars, bootVars, reportVars, inferVars, pollVars, syncVars, webVars, envVars, overlayVars, pipeVars, taskType, tabSwitchCount,
                 sessionStartTime, storedActive, storedStart, storedTabSwitches, setPending>>

\* background: storage.onChanged for a new cortexflow_session_id; the session
\* state is read back from storage.
onSessionSet ==
  /\ setPending > 0
  /\ setPending' = setPending - 1
  /\ changes' = Without(changes, "set")
  /\ sessionId' = storedSessionId
  /\ taskType' = OrGeneral(storedTask)
  /\ sessionStartTime' = OrNow(storedStart)
  /\ polling' = FALSE
  /\ UNCHANGED <<bridge, backendActive, backendTask, backendStart, stopPending, pollPhase, storeVars, bootVars, reportVars, inferVars, webVars, envVars,
                 overlayVars, storedSessionId, sessionsStarted, activeTabId,
                 sampled, req, results, clearPending, ended, processed, tabSwitchCount,
                 storedActive, storedStart, storedTabSwitches, calls>>

\* Variant: endSession leaves the session keys in storage
endSession_KeepsStorage ==
  /\ sessionId # 0
  /\ ended' = ended \cup {sessionId}
  /\ sessionId' = 0
  /\ sessionStartTime' = 0
  /\ tabSwitchCount' = 0
  /\ stopPending' = stopPending \cup {sessionId}
  /\ UNCHANGED <<storedSessionId, storedActive, clearPending, changes, bridge, backendActive,
                 backendTask, backendStart, polling, pollPhase, storeVars, bootVars, reportVars,
                 inferVars, webVars, envVars, overlayVars, sessionsStarted, activeTabId, sampled,
                 req, results, processed, taskType, storedStart, storedTabSwitches, calls,
                 setPending>>

\* background: endSession (END_SESSION from the popup).  Clearing the session
\* keys raises storage.onChanged.
endSession ==
  /\ sessionId # 0
  /\ ended' = ended \cup {sessionId}
  /\ sessionId' = 0
  /\ sessionStartTime' = 0
  /\ tabSwitchCount' = 0
  /\ storedSessionId' = 0
  /\ storedActive' = FALSE
  /\ clearPending' = clearPending + 1
  /\ changes' = Append(changes, "clear")
  /\ stopPending' = stopPending \cup {sessionId}
  /\ UNCHANGED <<bridge, backendActive, backendTask, backendStart, polling, pollPhase, storeVars, bootVars, reportVars, inferVars, webVars, envVars,
                 overlayVars, sessionsStarted, activeTabId, sampled, req, results,
                 processed, taskType, storedStart, storedTabSwitches, calls, setPending>>

\* The website ends the session: the bridge of telemetry.js removes the
\* session keys from storage.
websiteClearsSession ==
  /\ storedSessionId # 0
  /\ ended' = ended \cup {storedSessionId}
  /\ storedSessionId' = 0
  /\ storedActive' = FALSE
  /\ clearPending' = clearPending + 1
  /\ changes' = Append(changes, "clear")
  /\ UNCHANGED <<storeVars, bootVars, reportVars, inferVars, pollVars, bridge, webVars, envVars, overlayVars, sessionId, sessionsStarted, activeTabId, sampled, req,
                 results, processed, taskType, tabSwitchCount, sessionStartTime, storedStart,
                 storedTabSwitches, calls, setPending>>

\* background: storage.onChanged for cleared session keys; SESSION_ENDED goes
\* to the active tab only.
onSessionCleared ==
  /\ clearPending > 0
  /\ clearPending' = clearPending - 1
  /\ changes' = Without(changes, "clear")
  /\ sessionId' = 0
  /\ sessionStartTime' = 0
  /\ tabSwitchCount' = 0
  /\ sessionEndedEffect(activeTabId)
  /\ polling' = TRUE
  /\ UNCHANGED <<bridge, backendActive, backendTask, backendStart, stopPending, pollPhase, storeVars, bootVars, reportVars, inferVars, webVars, envVars, storedSessionId, sessionsStarted, activeTabId, sampled, req, results,
                 ended, processed, taskType, storedActive, storedStart, storedTabSwitches, calls,
                 setPending>>

\* The user activates another tab; background: tabs.onActivated counts the
\* switch while a session is active.
tabActivated(tab) ==
  /\ tab # activeTabId
  /\ activeTabId' = tab
  /\ IF sessionId # 0
     THEN /\ tabSwitchCount' = tabSwitchCount + 1
          /\ storedTabSwitches' = tabSwitchCount + 1
     ELSE UNCHANGED <<tabSwitchCount, storedTabSwitches>>
  /\ UNCHANGED <<storeVars, bootVars, reportVars, inferVars, pollVars, syncVars, webVars, envVars, overlayVars, sessionId, storedSessionId, sessionsStarted, sampled, req,
                 results, clearPending, ended, processed, taskType, sessionStartTime, storedActive,
                 storedStart, calls, setPending>>

\* The browser stops the idle service worker and loads it again for the next
\* event: the script's variables start from their initial values, calls that
\* were under way are gone, and the storage.get callback restores the session
\* state before the worker handles anything else and removes the
\* __cf_boot_reload flag.
workerRestart ==
  /\ \A t \in Tabs : req[t].phase = "idle"
  /\ calls' = [k \in Callers |-> IdleCall]
  /\ bootFlag' = FALSE
  /\ IF storedActive /\ storedSessionId # 0
     THEN /\ sessionId' = storedSessionId
          /\ sessionStartTime' = OrNow(storedStart)
          /\ taskType' = OrGeneral(storedTask)
          /\ tabSwitchCount' = storedTabSwitches
     ELSE /\ sessionId' = 0
          /\ sessionStartTime' = 0
          /\ taskType' = "general"
          /\ tabSwitchCount' = 0
  /\ polling' = ~(storedActive /\ storedSessionId # 0)
  /\ pollPhase' = "idle"
  /\ stopPending' = {}
  /\ backendActive' \in {backendActive} \cup (IF backendActive \in stopPending THEN {0} ELSE {})
  /\ UNCHANGED <<syncVars, backendTask, backendStart, storeVars, webVars, reportVars, inferVars, bootPhase, reloads, envVars, overlayVars, storedSessionId,
                 sessionsStarted, activeTabId, sampled, req, results, clearPending, ended,
                 processed, storedActive, storedStart, storedTabSwitches, setPending>>

\* endSession after its await: the backend has stopped the session;
\* startActiveSessionPolling
stopReturns(sid) ==
  /\ sid \in stopPending
  /\ stopPending' = stopPending \ {sid}
  /\ backendActive' = IF backendActive = sid THEN 0 ELSE backendActive
  /\ polling' = TRUE
  /\ UNCHANGED <<syncVars, pollPhase, backendTask, backendStart, envVars, overlayVars, pipeVars, webVars,
                 workerVars, storeVars, bootVars, reportVars, inferVars>>

\* endSession after its await: the fetch threw, the backend still holds the
\* session as running; startActiveSessionPolling
stopFails(sid) ==
  /\ sid \in stopPending
  /\ stopPending' = stopPending \ {sid}
  /\ polling' = TRUE
  /\ UNCHANGED <<syncVars, backendActive, pollPhase, backendTask, backendStart, envVars, overlayVars,
                 pipeVars, webVars, workerVars, storeVars, bootVars, reportVars, inferVars>>

\* The interval of startActiveSessionPolling fires (a user id is in storage):
\* with no session in memory it asks the backend for the active session
pollTick ==
  /\ polling
  /\ pollPhase = "idle"
  /\ sessionId = 0
  /\ pollPhase' = "fetch"
  /\ UNCHANGED <<syncVars, backendActive, stopPending, polling, backendTask, backendStart, envVars,
                 overlayVars, pipeVars, webVars, workerVars, storeVars, bootVars, reportVars, inferVars>>

\* The backend answers the poll; a session reported active is adopted and
\* written to storage, which raises storage.onChanged
pollReturns ==
  /\ pollPhase = "fetch"
  /\ pollPhase' = "idle"
  /\ IF backendActive # 0
     THEN /\ sessionId' = backendActive
          /\ taskType' = backendTask
          /\ sessionStartTime' = backendStart
          /\ storedSessionId' = backendActive
          /\ storedTask' = backendTask
          /\ storedActive' = TRUE
          /\ storedStart' = backendStart
          /\ setPending' = setPending + 1
          /\ changes' = Append(changes, "set")
          /\ polling' = FALSE
     ELSE UNCHANGED <<sessionId, taskType, sessionStartTime, storedSessionId, storedTask,
                      storedActive, storedStart, setPending, polling, changes>>
  /\ UNCHANGED <<bridge, backendActive, stopPending, backendTask, backendStart, now, ticks, mainChan,
                 overlayVars, webVars, storeVars, bootVars, reportVars, inferVars, sessionsStarted, activeTabId, sampled,
                 req, results, clearPending, ended, processed, tabSwitchCount, storedTabSwitches,
                 calls>>

\* The poll's fetch throws: silent retry on the next tick
pollFails ==
  /\ pollPhase = "fetch"
  /\ pollPhase' = "idle"
  /\ UNCHANGED <<syncVars, backendActive, stopPending, polling, backendTask, backendStart, envVars,
                 overlayVars, pipeVars, webVars, workerVars, storeVars, bootVars, reportVars, inferVars>>

\* telemetry.js: cortexflowBootReload, run when a page of the tab loads the
\* content script; it asks storage for the flag.
cortexflowBootReload(tab) ==
  /\ bootPhase[tab] = "idle"
  /\ bootPhase' = [bootPhase EXCEPT ![tab] = "get"]
  /\ UNCHANGED <<envVars, overlayVars, pipeVars, webVars, reportVars, inferVars, workerVars, storeVars, pollVars, syncVars, bootFlag,
                 reloads>>

\* The storage.get callback: without the flag it sets the flag, and the
\* callback of that set starts the 300 ms timeout.
bootGetCallback(tab) ==
  /\ bootPhase[tab] = "get"
  /\ IF bootFlag
     THEN /\ bootPhase' = [bootPhase EXCEPT ![tab] = "idle"]
          /\ UNCHANGED bootFlag
     ELSE /\ bootPhase' = [bootPhase EXCEPT ![tab] = "timeout"]
          /\ bootFlag' = TRUE
  /\ UNCHANGED <<envVars, overlayVars, pipeVars, webVars, reportVars, inferVars, workerVars, storeVars, pollVars, syncVars, reloads>>

\* The timeout calls chrome.runtime.reload(): the extension is reloaded, and
\* the content scripts that were running lose their extension context.
bootReloadTimeout(tab) ==
  /\ bootPhase[tab] = "timeout"
  /\ reloads' = reloads + 1
  /\ bootPhase' = [t \in Tabs |-> "idle"]
  /\ UNCHANGED <<envVars, overlayVars, pipeVars, webVars, reportVars, inferVars, workerVars, storeVars, pollVars, syncVars, bootFlag>>

\* The next sampling interval begins TELEMETRY_INTERVAL_MS later, after every
\* tab's timer has fired and its request was answered (requests take far less
\* than an interval).
nextInterval ==
  /\ \A t \in Tabs : sampled[t] /\ req[t].phase = "idle"
  /\ ticks < MaxIntervals
  /\ TickTo(now + TELEMETRY_INTERVAL_MS)
  /\ sampled' = [t \in Tabs |-> FALSE]
  /\ UNCHANGED <<workerVars, storeVars, bootVars, reportVars, inferVars, pollVars, syncVars, sessionId, storedSessionId, sessionsStarted, activeTabId,
                 req, results, clearPending, ended, processed>>

NextPipe ==
  \/ \E t \in Tabs : collectAndSend(t)
  \/ \E t \in Tabs : sendTelemetry(t)
  \/ \E t \in Tabs : fetchReturns(t)
  \/ \E t \in Tabs : fetchFails(t)
  \/ \E t \in Tabs : forwardToActiveTab(t)
  \/ \E t \in Tabs : telemetryResponse(t)
  \/ \E t \in Tabs : TaskRefreshCallback(t)
  \/ \E t \in Tabs : tabSwitchCount < MaxSwitches /\ tabActivated(t)
  \/ sessionsStarted < MaxSessions /\ startSession(1, "general")
  \/ startSessionPost(1)
  \/ startSessionReturns(1)
  \/ startSessionAnswered(1)
  \/ endSession
  \/ websiteClearsSession
  \/ onSessionCleared
  \/ nextInterval

InitPipe == Init /\ mainChan = "instab"

SpecPipe == InitPipe /\ [][NextPipe]_vars

\* The background service worker alone, with one popup: sessions one after
\* the other, tab switches, and restarts of the worker
WorkerTasks == {"Coding", "Research"}

TickWorker ==
  /\ ticks < MaxWorkerTicks
  /\ TickTo(now + TELEMETRY_INTERVAL_MS)
  /\ UNCHANGED <<pipeVars, workerVars, storeVars, bootVars, reportVars, inferVars, pollVars, syncVars>>

NextWorker ==
  \/ \E task \in WorkerTasks : sessionsStarted < MaxWorkerSessions /\ startSession(1, task)
  \/ startSessionPost(1)
  \/ startSessionReturns(1)
  \/ startSessionFails(1)
  \/ startSessionAnswered(1)
  \/ onSessionSet
  \/ endSession
  \/ onSessionCleared
  \/ \E t \in Tabs : tabSwitchCount < MaxSwitches /\ tabActivated(t)
  \/ workerRestart
  \/ TickWorker

SpecWorker == Init /\ [][NextWorker]_vars

\* The background service worker with START_SESSION from every popup, so
\* that one call can begin while another is at an await
NextStart ==
  \/ \E k \in Callers, task \in WorkerTasks :
       sessionsStarted < MaxSessions /\ startSession(k, task)
  \/ \E k \in Callers : startSessionPost(k)
  \/ \E k \in Callers : startSessionReturns(k)
  \/ \E k \in Callers : startSessionFails(k)
  \/ \E k \in Callers : startSessionAnswered(k)
  \/ onSessionSet
  \/ endSession
  \/ onSessionCleared
  \/ TickWorker

SpecStart == Init /\ [][NextStart]_vars

\* ------------------------------------------------------------------------
\* Website: rollingAggregator.ts
\* ------------------------------------------------------------------------

\* Variant: nothing is evicted
push_KeepsAll(buf, entry) == Append(buf, entry)

\* RollingAggregator.push
push(buf, entry) ==
  LET b == Append(buf, entry)
  IN  IF Len(b) > MAX_ENTRIES THEN Tail(b) ELSE b

\* RollingAggregator.reset
reset == <<>>

\* A quotient num / den of the page's arithmetic, kept exact
Quot(num, den) == [num |-> num, den |-> den]

RECURSIVE SumRange(_, _, _, _)
\* The sum of a field over the entries lo..hi, by halves
SumRange(buf, field, lo, hi) ==
  IF lo > hi THEN 0
  ELSE IF lo = hi THEN buf[lo][field]
  ELSE LET mid == (lo + hi) \div 2
       IN  SumRange(buf, field, lo, mid) + SumRange(buf, field, mid + 1, hi)

\* The loop "for (const e of this.buffer) sum += e[field]"
SumOf(buf, field) == SumRange(buf, field, 1, Len(buf))

\* Variant: the divisor is the capacity of the window
computeAverages_ByCapacity(buf) ==
  [avgRisk |-> Quot(SumOf(buf, "risk"), MAX_ENTRIES),
   avgInstability |-> Quot(SumOf(buf, "instability"), MAX_ENTRIES),
   avgDrift |-> Quot(SumOf(buf, "drift"), MAX_ENTRIES),
   avgFatigue |-> Quot(SumOf(buf, "fatigue"), MAX_ENTRIES)]

\* RollingAggregator.computeAverages (avgConflict, avgECN and avgDMN are
\* computed by the same loop from fields the payloads here do not carry)
computeAverages(buf) ==
  LET n == IF Len(buf) = 0 THEN 1 ELSE Len(buf)
  IN  [avgRisk |-> Quot(SumOf(buf, "risk"), n),
       avgInstability |-> Quot(SumOf(buf, "instability"), n),
       avgDrift |-> Quot(SumOf(buf, "drift"), n),
       avgFatigue |-> Quot(SumOf(buf, "fatigue"), n)]

\* buffer.slice(-3) and buffer.slice(-6, -3)
Last3(buf) == SubSeq(buf, Len(buf) - TrendSpan + 1, Len(buf))
Prev3(buf) == SubSeq(buf, Len(buf) - 2 * TrendSpan + 1, Len(buf) - TrendSpan)

\* Variant: the means must differ by more than 0.10
computeTrend_WideEpsilon(buf) ==
  IF Len(buf) < 2 * TrendSpan THEN "stable"
  ELSE LET last3 == Last3(buf)
           prev3 == Prev3(buf)
           sumLast == SumOf(last3, "risk")
           sumPrev == SumOf(prev3, "risk")
           risingContinuously ==
             /\ last3[1].risk >= prev3[3].risk
             /\ last3[2].risk >= last3[1].risk
             /\ last3[3].risk >= last3[2].risk
       IN  IF risingContinuously /\ sumLast > sumPrev + TrendSpan * 10 THEN "rising"
           ELSE IF sumLast < sumPrev - TrendSpan * 10 THEN "falling"
           ELSE "stable"

\* Variant: "rising" does not look at the order of the values
computeTrend_NoMonotone(buf) ==
  IF Len(buf) < 2 * TrendSpan THEN "stable"
  ELSE LET sumLast == SumOf(Last3(buf), "risk")
           sumPrev == SumOf(Prev3(buf), "risk")
       IN  IF sumLast > sumPrev + TrendSpan * TrendEpsilon THEN "rising"
           ELSE IF sumLast < sumPrev - TrendSpan * TrendEpsilon THEN "falling"
           ELSE "stable"

\* Variant: "falling" needs the values to fall step by step
computeTrend_FallingMonotone(buf) ==
  IF Len(buf) < 2 * TrendSpan THEN "stable"
  ELSE LET last3 == Last3(buf)
           prev3 == Prev3(buf)
           sumLast == SumOf(last3, "risk")
           sumPrev == SumOf(prev3, "risk")
           risingContinuously ==
             /\ last3[1].risk >= prev3[3].risk
             /\ last3[2].risk >= last3[1].risk
             /\ last3[3].risk >= last3[2].risk
           fallingContinuously ==
             /\ last3[1].risk <= prev3[3].risk
             /\ last3[2].risk <= last3[1].risk
             /\ last3[3].risk <= last3[2].risk
       IN  IF risingContinuously /\ sumLast > sumPrev + TrendSpan * TrendEpsilon THEN "rising"
           ELSE IF fallingContinuously /\ sumLast < sumPrev - TrendSpan * TrendEpsilon
                THEN "falling"
           ELSE "stable"

\* RollingAggregator.computeTrend.  avgLast > avgPrev + 0.02 is compared on
\* the sums of the three values, in exact arithmetic.
computeTrend(buf) ==
  IF Len(buf) < 2 * TrendSpan THEN "stable"
  ELSE LET last3 == Last3(buf)
           prev3 == Prev3(buf)
           sumLast == SumOf(last3, "risk")
           sumPrev == SumOf(prev3, "risk")
           risingContinuously ==
             /\ last3[1].risk >= prev3[3].risk
             /\ last3[2].risk >= last3[1].risk
             /\ last3[3].risk >= last3[2].risk
       IN  IF risingContinuously /\ sumLast > sumPrev + TrendSpan * TrendEpsilon THEN "rising"
           ELSE IF sumLast < sumPrev - TrendSpan * TrendEpsilon THEN "falling"
           ELSE "stable"

\* The candidates of dominantMetric, in the order of the array literal
Candidates(avg) ==
  << [key |-> "risk", val |-> avg.avgRisk],
     [key |-> "instability", val |-> avg.avgInstability],
     [key |-> "drift", val |-> avg.avgDrift],
     [key |-> "fatigue", val |-> avg.avgFatigue] >>

\* b.val - a.val > 0 for two quotients
Greater(b, a) == b.num * a.den > a.num * b.den

\* x put into a sequence sorted by "(a, b) => b.val - a.val", behind the
\* elements that do not compare after it (Array.prototype.sort is stable)
InsertSorted(sorted, x) ==
  LET before == { i \in 0..Len(sorted) : \A j \in 1..i : ~Greater(x.val, sorted[j].val) }
      n == CHOOSE i \in before : \A k \in before : k <= i
  IN  SubSeq(sorted, 1, n) \o <<x>> \o SubSeq(sorted, n + 1, Len(sorted))

RECURSIVE SortCandidates(_, _)
\* candidates.sort((a, b) => b.val - a.val) of the first n candidates
SortCandidates(cand, n) ==
  IF n = 0 THEN <<>> ELSE InsertSorted(SortCandidates(cand, n - 1), cand[n])

\* Variant: the candidates are sorted in ascending order
dominantMetric_Ascending(avg) ==
  LET sorted == SortCandidates(Candidates(avg), 4)
  IN  sorted[Len(sorted)].key

\* RollingAggregator.dominantMetric
dominantMetric(avg) ==
  LET sorted == SortCandidates(Candidates(avg), 4)
  IN  sorted[1].key

\* RollingAggregator.get10MinSummary
get10MinSummary(buf) ==
  LET averages == computeAverages(buf)
  IN  [averages |-> averages,
       dominantMetric |-> dominantMetric(averages),
       riskTrend |-> computeTrend(buf),
       entryCount |-> Len(buf)]

\* ------------------------------------------------------------------------
\* Website: DetailedReportPage.tsx and the SessionProvider
\* ------------------------------------------------------------------------

\* The payload of the next message
NextPayload == PagePayloads[payloads[(pushedCount % PatternLen) + 1]]

\* The TelemetryEntry onMessage builds from a payload ("payload.x ?? 0")
TelemetryEntry(payload) ==
  [risk |-> OrZero(payload.risk),
   instability |-> OrZero(payload.instability),
   drift |-> OrZero(payload.drift),
   fatigue |-> OrZero(payload.fatigue)]

\* redAlert.ts evaluateRedAlert: the "active" of its result.  The payloads
\* carry no accumulated_conflict, so avgConflict is 0 and its test fails.
evaluateRedAlert(s) ==
  \/ Greater(s.averages.avgRisk, Quot(75, 1))
  \/ s.riskTrend = "rising" /\ Greater(s.averages.avgRisk, Quot(65, 1))

\* An observation sequence that follows the pushes of the buffer
Follow(seq, x) == IF Len(seq) = MAX_ENTRIES THEN Append(Tail(seq), x) ELSE Append(seq, x)

\* onMessage of the page's telemetry effect, for an INFERENCE_RESULT event
\* whose payload is that of the result numbered r
onMessageEvent(payload, r) ==
  /\ payload.risk # Null
  /\ buffer' = push(buffer, TelemetryEntry(payload))
  /\ entryTimes' = Follow(entryTimes, now)
  /\ entryResult' = Follow(entryResult, r)
  /\ summary' = get10MinSummary(buffer')
  /\ redAlert' = IF alertDismissed THEN redAlert ELSE evaluateRedAlert(summary')
  /\ bufferSession' = Follow(bufferSession, activeSession)
  /\ pushedCount' = pushedCount + 1
  /\ UNCHANGED <<showExercise, alertDismissed>>

\* A message with the next payload reaches onMessage.  Results are produced
\* for the active session, and numbered from the last reset of the window.
onMessage ==
  /\ activeSession # 0
  /\ pushedCount < MaxPushes
  /\ onMessageEvent(NextPayload, pushedCount + 1)
  /\ UNCHANGED <<envVars, overlayVars, pipeVars, workerVars, bootVars, inferVars, pollVars, syncVars, storeVars,
                 activeSession, webSessionsStarted, payloads, nextPollAt>>

\* A caller obtains aggregator.get10MinSummary()
summaryRequested ==
  /\ summary' = get10MinSummary(buffer)
  /\ UNCHANGED <<envVars, overlayVars, pipeVars, workerVars, bootVars, reportVars, inferVars, pollVars, syncVars, storeVars, buffer, activeSession, webSessionsStarted,
                 payloads, pushedCount, bufferSession>>

\* handleExerciseComplete: the focus-reset exercise was completed
handleExerciseComplete ==
  /\ showExercise' = FALSE
  /\ buffer' = reset
  /\ entryTimes' = <<>>
  /\ entryResult' = <<>>
  /\ summary' = NoSummary
  /\ redAlert' = FALSE
  /\ alertDismissed' = FALSE
  /\ pushedCount' = 0
  /\ bufferSession' = <<>>
  /\ UNCHANGED <<envVars, overlayVars, pipeVars, workerVars, bootVars, inferVars, pollVars, syncVars, storeVars,
                 activeSession, webSessionsStarted, payloads, nextPollAt>>

\* RedAlertModal's onStartExercise
onStartExercise ==
  /\ redAlert
  /\ redAlert' = FALSE
  /\ showExercise' = TRUE
  /\ UNCHANGED <<envVars, overlayVars, pipeVars, workerVars, bootVars, inferVars, pollVars, syncVars, storeVars,
                 webVars, entryTimes, entryResult, alertDismissed, nextPollAt>>

\* handleDismissAlert: RedAlertModal's onDismiss
handleDismissAlert ==
  /\ redAlert
  /\ alertDismissed' = TRUE
  /\ redAlert' = FALSE
  /\ UNCHANGED <<envVars, overlayVars, pipeVars, workerVars, bootVars, inferVars, pollVars, syncVars, storeVars,
                 webVars, entryTimes, entryResult, showExercise, nextPollAt>>

\* FocusExercise's onCancel
onCancel ==
  /\ showExercise
  /\ showExercise' = FALSE
  /\ UNCHANGED <<envVars, overlayVars, pipeVars, workerVars, bootVars, inferVars, pollVars, syncVars, storeVars,
                 webVars, entryTimes, entryResult, redAlert, alertDismissed, nextPollAt>>

\* Payloads of the results that reach the report page: a low and a high risk
ReportPayloads ==
  { [risk |-> 30, instability |-> 40, drift |-> 40, fatigue |-> 10],
    [risk |-> 80, instability |-> 40, drift |-> 40, fatigue |-> 10] }

\* The extension produces a result: it reaches the page as a message, as the
\* stored latest inference, or as both
resultProduced(payload, posted, stored) ==
  /\ posted \/ stored
  /\ resultCount' = resultCount + 1
  /\ latestInference' =
       IF stored THEN [id |-> resultCount + 1, risk |-> payload.risk] ELSE latestInference
  /\ IF posted THEN onMessageEvent(payload, resultCount + 1)
     ELSE UNCHANGED <<buffer, summary, pushedCount, bufferSession, entryTimes, entryResult,
                      redAlert, showExercise, alertDismissed>>
  /\ UNCHANGED <<envVars, overlayVars, pipeVars, workerVars, bootVars, pollVars, syncVars, storeVars,
                 activeSession, webSessionsStarted, payloads, nextPollAt>>

\* The payload JSON.parse gives for the stored latest inference
StoredPayload == CHOOSE payload \in ReportPayloads : payload.risk = latestInference.risk

\* The callback of the interval pollId
pollId ==
  /\ now = nextPollAt
  /\ nextPollAt' = now + POLL_MS
  /\ IF /\ latestInference # NoInference
        /\ latestInference.risk # Null
        /\ \/ entryTimes = <<>>
           \/ now - entryTimes[Len(entryTimes)] > DEDUP_MS
     THEN onMessageEvent(StoredPayload, latestInference.id)
     ELSE UNCHANGED <<buffer, summary, pushedCount, bufferSession, entryTimes, entryResult,
                      redAlert, showExercise, alertDismissed>>
  /\ UNCHANGED <<envVars, overlayVars, pipeVars, workerVars, bootVars, inferVars, pollVars, syncVars, storeVars,
                 activeSession, webSessionsStarted, payloads>>

\* Time passes on the report page, up to the next firing of pollId
ReportStepMs == 1000

reportTick ==
  /\ now + ReportStepMs <= nextPollAt
  /\ now' = now + ReportStepMs
  /\ UNCHANGED <<ticks, mainChan, storedTask, overlayVars, pipeVars, workerVars, bootVars, inferVars,
                 pollVars, syncVars, storeVars, webVars, reportVars>>

\* ------------------------------------------------------------------------
\* Website: the items of localStorage (sessionHistory.ts, SessionProvider)
\* ------------------------------------------------------------------------

\* JSON.parse throws on text that is not JSON, else gives the value
JSONparse(item) == [threw |-> item.kind = "corrupt", value |-> item]

\* JSON.stringify of an array of sessions
JSONstringify(sessions) == JsonArray(sessions)

\* readLocalSessions
readLocalSessions(item) ==
  IF item.kind = "missing" THEN <<>>
  ELSE LET parsed == JSONparse(item)
       IN  IF parsed.threw THEN <<>>
           ELSE IF parsed.value.kind = "array" THEN parsed.value.items ELSE <<>>

\* Array.prototype.filter with (s) => s.id !== id
RECURSIVE FilterOut(_, _)
FilterOut(sessions, id) ==
  IF sessions = <<>> THEN <<>>
  ELSE IF Head(sessions).id # id THEN <<Head(sessions)>> \o FilterOut(Tail(sessions), id)
       ELSE FilterOut(Tail(sessions), id)

\* Variant: the session is prepended to the history as it is
writeLocalSession_NoFilter(item, session) ==
  JSONstringify(<<session>> \o readLocalSessions(item))

\* writeLocalSession: the item it leaves.  Reading .id of a null element
\* throws inside the try, and the item stays as it was.  setItem is taken to
\* succeed (the storage quota is not modelled).
writeLocalSession(item, session) ==
  LET sessions == readLocalSessions(item)
  IN  IF \E i \in DOMAIN sessions : ~sessions[i].object THEN item
      ELSE JSONstringify(<<session>> \o FilterOut(sessions, session.id))

\* loadStoredSession: the parsed value, or JSON null
JsonNull == [kind |-> "null", items |-> <<>>, id |-> 0]

loadStoredSession(item) ==
  IF item.kind = "missing" THEN JsonNull
  ELSE LET parsed == JSONparse(item)
       IN  IF parsed.threw THEN JsonNull ELSE parsed.value

\* UUID_RE.test(stored.id)
IsUuid(value) == value.kind = "object" /\ value.id > 0

\* The initial activeSession of SessionProvider (0 = null)
InitialSession(item) ==
  LET stored == loadStoredSession(item)
  IN  IF stored.kind # "null" /\ IsUuid(stored) THEN stored.id ELSE 0

\* Durations a completed session is recorded with, in minutes
Durations == {1, 25}

\* The task type the website starts its sessions with
SiteTask == "Coding"

\* The two messages syncSessionToExtension(null, ...) posts, taken together
ClearMessage == [id |-> 0, task |-> "general"]

\* SessionProvider.startSession, from the answer of the backend on: the
\* session is kept, stored and posted to the bridge of telemetry.js
webStartSession ==
  /\ activeSession = 0
  /\ webSessionsStarted < MaxWebSessions
  /\ webSessionsStarted' = webSessionsStarted + 1
  /\ backendActive' = NewSessionId
  /\ backendTask' = SiteTask
  /\ backendStart' = now
  /\ activeSession' = NewSessionId
  /\ localActive' = JsonObject(NewSessionId)
  /\ bridge' = Append(bridge, [id |-> NewSessionId, task |-> SiteTask])
  /\ UNCHANGED <<envVars, overlayVars, pipeVars, workerVars, bootVars, reportVars, inferVars,
                 stopPending, polling, pollPhase, changes, buffer, summary, payloads, pushedCount,
                 bufferSession, localHistory, lastRead, lastWrite, lastRestore>>

\* SessionProvider.stopSession
webStopSession ==
  /\ activeSession # 0
  /\ \E minutes \in Durations :
       /\ localHistory' = writeLocalSession(localHistory, Session(activeSession, minutes))
       /\ lastWrite' = Session(activeSession, minutes)
  /\ backendActive' = IF backendActive = activeSession THEN 0 ELSE backendActive
  /\ activeSession' = 0
  /\ localActive' = NoItem
  /\ bridge' = Append(bridge, ClearMessage)
  /\ UNCHANGED <<envVars, overlayVars, pipeVars, workerVars, bootVars, reportVars, inferVars,
                 stopPending, polling, pollPhase, backendTask, backendStart, changes, buffer,
                 summary, webSessionsStarted, payloads, pushedCount, bufferSession, lastRead,
                 lastRestore>>

\* telemetry.js: the bridge's message listener handles the next message of
\* the website and writes it to chrome.storage.local; storage.onChanged
\* reports cortexflow_session_id when its value changes
bridgeListener ==
  /\ bridge # <<>>
  /\ bridge' = Tail(bridge)
  /\ LET msg == Head(bridge) IN
       /\ storedSessionId' = msg.id
       /\ storedActive' = (msg.id # 0)
       /\ storedTask' = IF msg.id # 0 THEN msg.task ELSE NoTask
       /\ storedStart' = IF msg.id # 0 THEN now ELSE storedStart
       /\ IF msg.id = storedSessionId
          THEN UNCHANGED <<setPending, clearPending, changes>>
          ELSE IF msg.id # 0
               THEN /\ setPending' = setPending + 1
                    /\ changes' = Append(changes, "set")
                    /\ UNCHANGED clearPending
               ELSE /\ clearPending' = clearPending + 1
                    /\ changes' = Append(changes, "clear")
                    /\ UNCHANGED setPending
  /\ UNCHANGED <<now, ticks, mainChan, overlayVars, webVars, storeVars, bootVars, reportVars,
                 inferVars, pollVars, sessionId, sessionsStarted, activeTabId, sampled, req,
                 results, ended, processed, taskType, tabSwitchCount, sessionStartTime,
                 storedTabSwitches, calls>>

\* SessionProvider is mounted when the page is loaded: activeSession starts
\* from the stored item, an item without a UUID id is removed, and the
\* page's aggregator is a new one.
pageLoad ==
  /\ activeSession' = InitialSession(localActive)
  /\ localActive' =
       IF loadStoredSession(localActive).kind # "null" /\ ~IsUuid(loadStoredSession(localActive))
       THEN NoItem ELSE localActive
  /\ lastRestore' = [done |-> TRUE, from |-> localActive, session |-> InitialSession(localActive)]
  /\ buffer' = <<>>
  /\ entryTimes' = <<>>
  /\ entryResult' = <<>>
  /\ summary' = NoSummary
  /\ redAlert' = FALSE
  /\ showExercise' = FALSE
  /\ alertDismissed' = FALSE
  /\ nextPollAt' = now + POLL_MS
  /\ pushedCount' = 0
  /\ bufferSession' = <<>>
  /\ UNCHANGED <<envVars, overlayVars, pipeVars, workerVars, bootVars, inferVars, pollVars, syncVars,
                 webSessionsStarted, payloads, localHistory, lastRead, lastWrite>>

\* getSessionHistory / getSessionDetail: a caller of readLocalSessions
readHistory ==
  /\ lastRead' = [done |-> TRUE, from |-> localHistory, value |-> readLocalSessions(localHistory)]
  /\ UNCHANGED <<envVars, overlayVars, pipeVars, workerVars, bootVars, reportVars, inferVars, pollVars, syncVars, webVars, localHistory, localActive,
                 lastWrite, lastRestore>>

\* A caller of writeLocalSession
writeSession(session) ==
  /\ localHistory' = writeLocalSession(localHistory, session)
  /\ lastWrite' = session
  /\ UNCHANGED <<envVars, overlayVars, pipeVars, workerVars, bootVars, reportVars, inferVars, pollVars, syncVars, webVars, localActive, lastRead,
                 lastRestore>>

\* clearLocalSessions
clearLocalSessions ==
  /\ localHistory' = NoItem
  /\ UNCHANGED <<envVars, overlayVars, pipeVars, workerVars, bootVars, reportVars, inferVars, pollVars, syncVars, webVars, localActive, lastRead,
                 lastWrite, lastRestore>>

\* The aggregator during one session, for every order of the payloads, over
\* runs a little longer than the entries computeTrend looks at
NextAgg ==
  \/ pushedCount < MaxTrendPushes /\ onMessage
  \/ summaryRequested
  \/ handleExerciseComplete

InitAgg ==
  /\ InitExtension /\ mainChan = "instab"
  /\ InitPage
  /\ activeSession = 1
  /\ webSessionsStarted = 1
  /\ localHistory = NoItem
  /\ localActive = JsonObject(1)
  /\ payloads \in PayloadPatterns

SpecAgg == InitAgg /\ [][NextAgg]_vars

\* The aggregator during one session whose risk moves step by step
InitTrend ==
  /\ InitExtension /\ mainChan = "instab"
  /\ InitPage
  /\ activeSession = 1
  /\ webSessionsStarted = 1
  /\ localHistory = NoItem
  /\ localActive = JsonObject(1)
  /\ payloads \in RampPatterns

SpecTrend == InitTrend /\ [][NextAgg]_vars

\* The page across the sessions the website starts and stops
NextSessions ==
  \/ onMessage
  \/ handleExerciseComplete
  \/ webStartSession
  \/ webStopSession

InitSessions == Init /\ mainChan = "instab"

SpecSessions == InitSessions /\ [][NextSessions]_vars

\* One session is under way and the payloads arrive in the steady order
InitOneSession ==
  /\ InitExtension /\ mainChan = "instab"
  /\ InitPage
  /\ activeSession = 1
  /\ webSessionsStarted = 1
  /\ localHistory = NoItem
  /\ localActive = JsonObject(1)
  /\ payloads = SteadyPattern

\* The aggregator during one session, until after the window has filled
NextWindow ==
  \/ onMessage
  \/ summaryRequested
  \/ handleExerciseComplete

SpecWindow == InitOneSession /\ [][NextWindow]_vars

\* The page next to the overlay of the tab the user works in
NextExercise ==
  \/ \E data \in ResultsOf[mainChan] : DeliverResult(OverlayTab, data)
  \/ pushedCount < MaxTrendPushes /\ onMessage
  \/ handleExerciseComplete

SpecExercise == InitOneSession /\ [][NextExercise]_vars

\* The report page during one session: results reach it as messages and
\* through the stored latest inference, in any timing
MaxReportResults == 3
MaxReportMs == 11000

NextReport ==
  \/ /\ resultCount < MaxReportResults
     /\ \E payload \in ReportPayloads, posted, stored \in BOOLEAN :
          resultProduced(payload, posted, stored)
  \/ pollId
  \/ now < T0 + MaxReportMs /\ reportTick
  \/ onStartExercise
  \/ handleDismissAlert
  \/ onCancel
  \/ showExercise /\ handleExerciseComplete

SpecReport == InitOneSession /\ [][NextReport]_vars

C38_AlertOrExercise == ~(redAlert /\ showExercise)

\* ------------------------------------------------------------------------
\* Vocabulary of the properties
\* ------------------------------------------------------------------------

\* The overlay of tab processes the non-error result d in this step
Processed(tab, d) ==
  /\ ~d.error
  /\ pendingGets'[tab] /\ now' = now
  /\ last'[tab].inBreakdownBefore = inBreakdown[tab]
  /\ currentRiskLevel'[tab] = RiskBand(OrZero(d.risk), d.breakdown_imminent, currentTask[tab])
  /\ DeliverResult(tab, d)

ChanValue(d, c) ==
  OrZero(CASE c = "instab" -> d.instability [] c = "drift" -> d.drift [] OTHER -> d.fatigue)

\* Floors of channel c in force when the step starts
Floor(tab, c, k) == ThresholdsFor(currentTask[tab])[c][k]

\* The results the session can deliver
Inputs == ResultsOf[mainChan]
BandInputs == BandResultsOf[mainChan]

\* ------------------------------------------------------------------------
\* C1 (as amended).  For every channel, starting from a hysteresis counter of
\* 0: an interval at or above the level-3 floor does not fire level 3, and an
\* interval below the level-1 floor fires nothing; when that first interval is
\* immediately followed by a second one at or above the level-3 floor, level 3
\* fires on the second, provided the channel's cooldown has expired, the
\* session is in breakdown mode at neither interval and the counter was not
\* reset between the two (focus-check "yes" answer, session end).
\* ------------------------------------------------------------------------
C1_FiresOnSecond(tab, c, d) ==
  ( /\ last[tab].spike[c]
    /\ ChanValue(d, c) >= Floor(tab, c, 3)
    /\ now > cooldownUntil[tab][c] )
  => last'[tab].fired[c] = 3

C1_HysteresisAmended ==
  [][ \A d \in Inputs : Processed(OverlayTab, d) => \A c \in Chan :
          /\ (sigCount[OverlayTab][c] = 0 /\ ChanValue(d, c) >= Floor(OverlayTab, c, 3))
               => last'[OverlayTab].fired[c] # 3
          /\ ChanValue(d, c) < Floor(OverlayTab, c, 1) => last'[OverlayTab].fired[c] = 0
          /\ ( /\ ~last[OverlayTab].inBreakdownBefore
               /\ ~inBreakdown[OverlayTab]
               /\ sigCount[OverlayTab][c] # 0 )
               => C1_FiresOnSecond(OverlayTab, c, d) ]_vars

\* C1 as stated: the second of two consecutive intervals at or above the
\* level-3 floor fires level 3 whenever the channel's cooldown has expired.
C1_HysteresisOriginal ==
  [][ \A d \in Inputs : Processed(OverlayTab, d) =>
        \A c \in Chan : C1_FiresOnSecond(OverlayTab, c, d) ]_vars

\* A second consecutive level-3 interval, after a first one that started from
\* counter 0, fired level 3.
C1_Witness ==
  \E c \in Chan : last[OverlayTab].prevSpike[c] /\ last[OverlayTab].fired[c] = 3

\* ------------------------------------------------------------------------
\* C2.  In breakdown mode an interval with risk at or above 0.35 resets the
\* recovery counter and stays in breakdown mode; a processed interval leaves
\* breakdown mode exactly when it is the second of two consecutive intervals
\* with risk below 0.35; no other step of the session leaves it.
\* ------------------------------------------------------------------------
C2_Recovery ==
  [][ /\ \A d \in Inputs :
           (inBreakdown[OverlayTab] /\ Processed(OverlayTab, d)) =>
             /\ OrZero(d.risk) >= LowRiskBelow =>
                  (inBreakdown'[OverlayTab] /\ recoveryCount'[OverlayTab] = 0)
             /\ ~inBreakdown'[OverlayTab] <=>
                  (OrZero(d.risk) < LowRiskBelow /\ last[OverlayTab].lowStreak = 1)
      /\ (inBreakdown[OverlayTab] /\ ~inBreakdown'[OverlayTab]) =>
           \/ \E d \in Inputs : Processed(OverlayTab, d)
           \/ SessionEndedMsg(OverlayTab) ]_vars

\* Breakdown mode was left at the second consecutive low-risk interval
C2_Witness ==
  /\ last[OverlayTab].inBreakdownBefore
  /\ last[OverlayTab].lowStreak = RecoveryNeeded
  /\ ~inBreakdown[OverlayTab]

\* ------------------------------------------------------------------------
\* C3.  While the session is in breakdown mode no channel fires a level-2 or
\* level-3 intervention, and once a channel's level-3 firing has set
\* breakdown mode the channels evaluated after it in the same interval fire
\* nothing.
\* ------------------------------------------------------------------------
ChanIndex(c) == CHOOSE k \in 1..Len(ChanOrder) : ChanOrder[k] = c

C3_NoFiringInBreakdown ==
  \A t \in Tabs :
    /\ last[t].inBreakdownBefore => \A c \in Chan : last[t].fired[c] = 0
    /\ \A c1, c2 \in Chan :
         (ChanIndex(c1) < ChanIndex(c2) /\ last[t].fired[c1] = 3) => last[t].fired[c2] = 0

\* ------------------------------------------------------------------------
\* C4.  A level-3 firing happens only in a step in which the channel's
\* counter is at least 2 and the time is past the channel's cooldown expiry,
\* and it leaves the session in breakdown mode; breakdown mode is entered only
\* by a step in which some channel fires level 3.
\* ------------------------------------------------------------------------
C4_Level3Gate ==
  [][ /\ \A d \in Inputs : \A c \in Chan :
           (last'[OverlayTab].fired[c] = 3 /\ Processed(OverlayTab, d)) =>
             /\ sigCount'[OverlayTab][c] >= 2
             /\ now > cooldownUntil[OverlayTab][c]
             /\ inBreakdown'[OverlayTab]
      /\ (~inBreakdown[OverlayTab] /\ inBreakdown'[OverlayTab]) =>
           /\ \E d \in Inputs : Processed(OverlayTab, d)
           /\ \E c \in Chan : last'[OverlayTab].fired[c] = 3 ]_vars

C4_Witness ==
  /\ inBreakdown[OverlayTab]
  /\ \E c \in Chan : last[OverlayTab].fired[c] = 3 /\ sigCount[OverlayTab][c] >= 2

\* ------------------------------------------------------------------------
\* C5.  Two successive firings (level 2 or 3) of the same channel of one
\* overlay are more than the channel's cooldown apart (instability 3 min,
\* drift 4 min, fatigue 8 min).
\* ------------------------------------------------------------------------
CooldownMinutes == [instab |-> 3, drift |-> 4, fatigue |-> 8]

C5_CooldownSeparation ==
  [][ \A d \in Inputs : \A c \in Chan :
        (last'[OverlayTab].fired[c] # 0 /\ lastFiredAt[OverlayTab][c] # 0 /\ Processed(OverlayTab, d))
          => now - lastFiredAt[OverlayTab][c] > CooldownMinutes[c] * 60000 ]_vars

\* A channel fired for the second time
C5_Witness ==
  \E c \in Chan : last[OverlayTab].fired[c] # 0 /\ last[OverlayTab].sinceFired[c] > 0

\* ------------------------------------------------------------------------
\* The breakdown banner
\* ------------------------------------------------------------------------

\* showBreakdownBanner ran in this step: its auto-dismiss timeout was set
BannerShownStep(tab) == Len(bannerTimers'[tab]) > Len(bannerTimers[tab])

\* The step moves the band of tab from green or yellow to red
EntersRed(tab) == currentRiskLevel[tab] # "red" /\ currentRiskLevel'[tab] = "red"

\* C8.  A processed result shows the breakdown banner exactly when it moves
\* the risk band from green or yellow to red while the banner cooldown has
\* expired and no banner is active; no other step shows the banner.
C8_BannerTrigger ==
  [][ /\ \A d \in BandInputs : Processed(OverlayTab, d) =>
           ( BannerShownStep(OverlayTab) <=>
               /\ EntersRed(OverlayTab)
               /\ now > breakdownCooldownUntil[OverlayTab]
               /\ ~isBreakdownActive[OverlayTab] )
      /\ ( \/ BannerShownStep(OverlayTab)
           \/ (~isBreakdownActive[OverlayTab] /\ isBreakdownActive'[OverlayTab]) )
           => /\ \E d \in BandInputs : Processed(OverlayTab, d)
              /\ isBreakdownActive'[OverlayTab] ]_vars

\* The banner is up, shown by a result that moved the band into red
C8_Witness ==
  /\ last[OverlayTab].shown
  /\ isBreakdownActive[OverlayTab]
  /\ currentRiskLevel[OverlayTab] = "red"
  /\ previousRiskLevel[OverlayTab] # "red"

\* C9 (as amended).  After the breakdown banner was dismissed or timed out, a
\* processed result shows it again exactly when it moves the band from green
\* or yellow to red more than 1 s after the dismissal; a result that finds the
\* band red and leaves it red does not show it.
C9_ReshowAmended ==
  [][ \A d \in BandInputs :
        ( /\ lastDismissAt[OverlayTab] > 0
          /\ ~isBreakdownActive[OverlayTab]
          /\ Processed(OverlayTab, d) ) =>
          ( BannerShownStep(OverlayTab) <=>
              /\ EntersRed(OverlayTab)
              /\ now - lastDismissAt[OverlayTab] > 1000 ) ]_vars

\* C9 as stated: after a dismissal, a result that finds the band red and
\* leaves it red once the 1 s cooldown has elapsed shows the banner again.
C9_ReshowOriginal ==
  [][ \A d \in BandInputs :
        ( /\ lastDismissAt[OverlayTab] > 0
          /\ ~isBreakdownActive[OverlayTab]
          /\ now - lastDismissAt[OverlayTab] > 1000
          /\ currentRiskLevel[OverlayTab] = "red"
          /\ Processed(OverlayTab, d)
          /\ currentRiskLevel'[OverlayTab] = "red" )
          => BannerShownStep(OverlayTab) ]_vars

\* The banner is up again after an earlier dismissal
C9_Witness ==
  /\ lastDismissAt[OverlayTab] > 0
  /\ last[OverlayTab].shown
  /\ isBreakdownActive[OverlayTab]
  /\ now - lastDismissAt[OverlayTab] > 1000

\* The band the thresholds of the task in force assign to a result
ExpectedBand(tab, d) ==
  LET task  == currentTask[tab]
      redAt == CASE task = "coding" -> 50 [] task = "writing" -> 60
                 [] task = "reading" -> 55 [] OTHER -> 65
  IN  IF d.breakdown_imminent \/ OrZero(d.risk) >= redAt THEN "red"
      ELSE IF OrZero(d.risk) >= 45 THEN "yellow" ELSE "green"

\* C10.  Every processed result advances the band (previous band := current
\* band, current band := the band of the result's risk), in breakdown mode as
\* out of it, and touches neither the banner cooldown nor an active banner;
\* dismissing the banner, by click or by timeout, changes no hysteresis
\* counter, channel cooldown, breakdown-mode flag or recovery counter.
C10_Independent ==
  [][ /\ \A d \in BandInputs : Processed(OverlayTab, d) =>
           /\ previousRiskLevel'[OverlayTab] = currentRiskLevel[OverlayTab]
           /\ currentRiskLevel'[OverlayTab] = ExpectedBand(OverlayTab, d)
           /\ breakdownCooldownUntil' = breakdownCooldownUntil
           /\ isBreakdownActive[OverlayTab] => isBreakdownActive'[OverlayTab]
      /\ (DismissClick(OverlayTab) \/ AutoDismissTimer(OverlayTab)) => UNCHANGED dispVars
      /\ ( /\ breakdownCooldownUntil' # breakdownCooldownUntil
           /\ ~SessionEndedMsg(OverlayTab) ) => UNCHANGED dispVars ]_vars

\* In breakdown mode a result moved the band and showed the banner
C10_Witness ==
  /\ last[OverlayTab].inBreakdownBefore
  /\ last[OverlayTab].shown
  /\ currentRiskLevel[OverlayTab] # previousRiskLevel[OverlayTab]

\* ------------------------------------------------------------------------
\* C6.  Each sampling interval of a session yields one InferenceResult, and
\* every overlay that processes a result processes it once, however many tabs
\* run the content scripts and whichever of the two paths delivers it.
\* ------------------------------------------------------------------------
C6_OneResultProcessedOnce ==
  /\ \A i \in 0..MaxTicks :
       Cardinality({ r \in DOMAIN results : results[r].interval = i }) <= 1
  /\ \A t \in Tabs : \A r \in 1..MaxResults : processed[t][r] <= 1

\* ------------------------------------------------------------------------
\* C7.  Once a session has been ended no overlay processes an InferenceResult
\* of that session, also when the telemetry request was under way at the end.
\* ------------------------------------------------------------------------
C7_NothingAfterEnd ==
  [][ \A t \in Tabs : \A r \in DOMAIN results :
        processed'[t][r] > processed[t][r] => results[r].session \notin ended ]_vars

\* ------------------------------------------------------------------------
\* C11 (as amended).  A result processed outside breakdown mode moves each
\* channel's hysteresis counter to counter + 1 when the channel's value is at
\* or above its level-1 floor and to max(0, counter - 1) otherwise; a result
\* processed in breakdown mode leaves the counters as they are; the counters
\* are never negative.
\* ------------------------------------------------------------------------
CounterRule(tab, c, d) ==
  sigCount'[tab][c] =
    IF ChanValue(d, c) >= Floor(tab, c, 1) THEN sigCount[tab][c] + 1
    ELSE IF sigCount[tab][c] = 0 THEN 0 ELSE sigCount[tab][c] - 1

C11_CountersAmended ==
  [][ /\ \A d \in Inputs : Processed(OverlayTab, d) => \A c \in Chan :
           IF inBreakdown[OverlayTab]
           THEN sigCount'[OverlayTab][c] = sigCount[OverlayTab][c]
           ELSE CounterRule(OverlayTab, c, d)
      /\ \A t \in Tabs : \A c \in Chan : sigCount'[t][c] >= 0 ]_vars

\* C11 as stated: every processed result applies the counter rule
C11_CountersOriginal ==
  [][ \A d \in Inputs : Processed(OverlayTab, d) =>
        \A c \in Chan : CounterRule(OverlayTab, c, d) ]_vars

\* One counter was advanced twice while another stayed at its floor of 0
C11_Witness ==
  /\ ~last[OverlayTab].inBreakdownBefore
  /\ \E c1, c2 \in Chan :
       sigCount[OverlayTab][c1] >= 2 /\ sigCount[OverlayTab][c2] = 0

\* ------------------------------------------------------------------------
\* C12 (as amended).  A processed result whose value for a channel is at level
\* 1 (at or above the level-1 floor, below the level-2 floor) fires no
\* intervention of that channel and leaves the channel's cooldown expiry
\* unchanged; breakdown mode changes in that step only through the re-entry
\* block (the step began in breakdown mode) or through the level-3 firing of
\* another channel.
\* ------------------------------------------------------------------------
AtLevel1(tab, c, d) ==
  ChanValue(d, c) >= Floor(tab, c, 1) /\ ChanValue(d, c) < Floor(tab, c, 2)

C12_Level1Quiet(tab, c) ==
  /\ last'[tab].fired[c] = 0
  /\ cooldownUntil'[tab][c] = cooldownUntil[tab][c]

C12_Level1Amended ==
  [][ \A d \in Inputs : Processed(OverlayTab, d) => \A c \in Chan :
        AtLevel1(OverlayTab, c, d) =>
          /\ C12_Level1Quiet(OverlayTab, c)
          /\ inBreakdown'[OverlayTab] # inBreakdown[OverlayTab] =>
               \/ inBreakdown[OverlayTab]
               \/ \E c2 \in Chan \ {c} : last'[OverlayTab].fired[c2] = 3 ]_vars

\* C12 as stated: a step with a channel at level 1 does not change breakdown mode
C12_Level1Original ==
  [][ \A d \in Inputs : Processed(OverlayTab, d) => \A c \in Chan :
        AtLevel1(OverlayTab, c, d) =>
          /\ C12_Level1Quiet(OverlayTab, c)
          /\ inBreakdown'[OverlayTab] = inBreakdown[OverlayTab] ]_vars

\* The last result had a channel at level 1: it advanced the counter from 1
\* to 2 and fired nothing although the cooldown had expired
C12_Witness ==
  \E c \in Chan :
    /\ last[OverlayTab].prevSpike[c] /\ ~last[OverlayTab].spike[c]
    /\ ~last[OverlayTab].inBreakdownBefore
    /\ sigCount[OverlayTab][c] = 2
    /\ last[OverlayTab].fired[c] = 0
    /\ now > cooldownUntil[OverlayTab][c]

\* ------------------------------------------------------------------------
\* C13.  When the overlay handles SESSION_ENDED its whole intervention state
\* is back at the initial value: hysteresis counters 0, per-channel cooldown
\* expiries 0, breakdown mode off, recovery counter 0, banner inactive, band
\* green and banner cooldown 0.
\* ------------------------------------------------------------------------
C13_StateDiscarded ==
  [][ SessionEndedMsg(OverlayTab) =>
        /\ sigCount'[OverlayTab] = ZeroCh
        /\ cooldownUntil'[OverlayTab] = ZeroCh
        /\ ~inBreakdown'[OverlayTab]
        /\ recoveryCount'[OverlayTab] = 0
        /\ ~isBreakdownActive'[OverlayTab]
        /\ previousRiskLevel'[OverlayTab] = "green"
        /\ currentRiskLevel'[OverlayTab] = "green"
        /\ breakdownCooldownUntil'[OverlayTab] = 0 ]_vars

\* ------------------------------------------------------------------------
\* C14.  Completing the focus-reset exercise leaves the window empty and the
\* dispatcher's counters, cooldowns, breakdown mode and banner at their
\* initial values.
\* ------------------------------------------------------------------------
C14_ExerciseClearsBoth ==
  [][ handleExerciseComplete =>
        /\ buffer' = <<>>
        /\ sigCount'[OverlayTab] = ZeroCh
        /\ cooldownUntil'[OverlayTab] = ZeroCh
        /\ ~inBreakdown'[OverlayTab]
        /\ recoveryCount'[OverlayTab] = 0
        /\ ~isBreakdownActive'[OverlayTab]
        /\ currentRiskLevel'[OverlayTab] = "green" ]_vars

\* ------------------------------------------------------------------------
\* C15.  The window behind a summary holds results of one session only, the
\* session of its newest entry.
\* ------------------------------------------------------------------------
C15_WindowOfOneSession ==
  summary # NoSummary =>
    \A i \in DOMAIN bufferSession : bufferSession[i] = bufferSession[Len(bufferSession)]

\* ------------------------------------------------------------------------
\* C16.  Within a session the firings of one channel are at least the
\* channel's cooldown apart, in whichever tabs' overlays they happen.
\* ------------------------------------------------------------------------
C16_CooldownAcrossTabs ==
  \A t1, t2 \in Tabs : \A c \in Chan :
    (t1 # t2 /\ lastFiredAt[t1][c] # 0 /\ lastFiredAt[t2][c] # 0) =>
      \/ lastFiredAt[t1][c] - lastFiredAt[t2][c] >= TYPE_COOLDOWNS[c]
      \/ lastFiredAt[t2][c] - lastFiredAt[t1][c] >= TYPE_COOLDOWNS[c]

\* ------------------------------------------------------------------------
\* C17.  The window never holds more than MAX_ENTRIES entries and is the most
\* recent min(n, MAX_ENTRIES) of the n entries pushed since the last reset, in
\* the order they were pushed.
\* ------------------------------------------------------------------------

\* The k-th entry pushed since the last reset
PushedEntry(k) == TelemetryEntry(PagePayloads[payloads[((k - 1) % PatternLen) + 1]])

C17_WindowIsRecentPushes ==
  LET m == IF pushedCount < MAX_ENTRIES THEN pushedCount ELSE MAX_ENTRIES
  IN  /\ Len(buffer) <= MAX_ENTRIES
      /\ buffer = [i \in 1..m |-> PushedEntry(pushedCount - m + i)]

\* The window was full and two more entries were pushed
C17_Witness ==
  pushedCount = MAX_ENTRIES + 2 /\ Len(buffer) = MAX_ENTRIES

\* ------------------------------------------------------------------------
\* C18.  The summary of an empty window has entryCount 0, every average 0 and
\* trend "stable"; the summary of a window of n > 0 entries has entryCount n
\* and, for every field, an average equal to the sum of the field over the
\* entries divided by n.
\* ------------------------------------------------------------------------
RECURSIVE Weighted(_, _)
\* Each value of the field times the number of entries that hold it
Weighted(field, vals) ==
  IF vals = {} THEN 0
  ELSE LET v == CHOOSE x \in vals : TRUE
       IN  v * Cardinality({ i \in DOMAIN buffer : buffer[i][field] = v })
             + Weighted(field, vals \ {v})

\* The sum of a field over the entries of the window
Sigma(field) == Weighted(field, { buffer[i][field] : i \in DOMAIN buffer })

AverageFields ==
  << <<"avgRisk", "risk">>, <<"avgInstability", "instability">>,
     <<"avgDrift", "drift">>, <<"avgFatigue", "fatigue">> >>

C18_Averages ==
  summary # NoSummary =>
    /\ summary.entryCount = Len(buffer)
    /\ \A k \in DOMAIN AverageFields :
         LET avg == summary.averages[AverageFields[k][1]]
         IN  /\ avg.den # 0
             /\ IF buffer = <<>> THEN avg.num = 0
                ELSE avg.num * Len(buffer) = Sigma(AverageFields[k][2]) * avg.den
    /\ buffer = <<>> => summary.riskTrend = "stable"

\* A summary of the empty window was obtained
C18_Witness ==
  summary # NoSummary /\ buffer = <<>> /\ summary.entryCount = 0

\* ------------------------------------------------------------------------
\* C19 (as amended).  With at least 6 entries the trend is "rising" exactly
\* when each of the last 3 risk values is at least the value before it (the
\* first of them compared with the last of the preceding 3) and the mean of
\* the last 3 exceeds the mean of the preceding 3 by more than 0.02.
\* ------------------------------------------------------------------------
RiskAt(k) == buffer[Len(buffer) - k].risk

Last3NonDecreasing == RiskAt(2) <= RiskAt(1) /\ RiskAt(1) <= RiskAt(0)

\* Three times (mean of the last 3 - mean of the preceding 3)
MeanGap3 == (RiskAt(0) + RiskAt(1) + RiskAt(2)) - (RiskAt(3) + RiskAt(4) + RiskAt(5))

C19_RisingAmended ==
  (summary # NoSummary /\ Len(buffer) >= 6) =>
    (summary.riskTrend = "rising" <=>
       /\ RiskAt(3) <= RiskAt(2)
       /\ Last3NonDecreasing
       /\ MeanGap3 > 3 * TrendEpsilon)

\* C19 as stated: only the last 3 values are compared with each other
C19_RisingOriginal ==
  (summary # NoSummary /\ Len(buffer) >= 6) =>
    (summary.riskTrend = "rising" <=> (Last3NonDecreasing /\ MeanGap3 > 3 * TrendEpsilon))

C19_Witness ==
  summary # NoSummary /\ Len(buffer) >= 6 /\ summary.riskTrend = "rising"

\* ------------------------------------------------------------------------
\* C20.  With at least 6 entries the trend is "falling" exactly when the mean
\* of the last 3 risk values is lower than the mean of the preceding 3 by
\* more than 0.02, whatever the order of the values; the conditions of
\* "rising" and "falling" never hold together.
\* ------------------------------------------------------------------------
C20_Falling ==
  (summary # NoSummary /\ Len(buffer) >= 6) =>
    /\ summary.riskTrend = "falling" <=> MeanGap3 < 0 - 3 * TrendEpsilon
    /\ ~(MeanGap3 > 3 * TrendEpsilon /\ MeanGap3 < 0 - 3 * TrendEpsilon)

\* "falling" was reported although the last 3 values did not fall step by step
C20_Witness ==
  /\ summary # NoSummary /\ Len(buffer) >= 6 /\ summary.riskTrend = "falling"
  /\ RiskAt(1) > RiskAt(2)

\* ------------------------------------------------------------------------
\* C21.  A window whose last 6 risk values rise with every step above 0.02
\* is "rising"; one whose last 6 fall with every step above 0.02 is
\* "falling"; a flat window, a window that is neither non-decreasing nor
\* non-increasing and whose last 6 values lie in a band no wider than 0.02,
\* and a window of fewer than 6 entries are "stable".
\* ------------------------------------------------------------------------

\* Risk of the entry k places after the one before it, among the last 6
StepAt(k) == RiskAt(k) - RiskAt(k + 1)

Last6 == { RiskAt(k) : k \in 0..(2 * TrendSpan - 1) }

MetricOrder == <<"risk", "instability", "drift", "fatigue">>

\* n times the window average of the k-th metric
MetricTotal(k) == Sigma(MetricOrder[k])

C22_DominantIsFirstMax ==
  summary # NoSummary =>
    \E k \in DOMAIN MetricOrder :
      /\ summary.dominantMetric = MetricOrder[k]
      /\ \A j \in DOMAIN MetricOrder : MetricTotal(j) <= MetricTotal(k)
      /\ \A j \in 1..(k - 1) : MetricTotal(j) < MetricTotal(k)

\* Instability and drift share the greatest average, above risk
C22_Witness ==
  /\ summary # NoSummary /\ buffer # <<>>
  /\ MetricTotal(2) = MetricTotal(3)
  /\ MetricTotal(1) < MetricTotal(2) /\ MetricTotal(4) < MetricTotal(2)
  /\ summary.dominantMetric = "instability"

\* ------------------------------------------------------------------------
\* C23.  When a result with a non-empty attribution shows the breakdown
\* banner, the banner's signal is an entry with the greatest contribution,
\* the first such entry in iteration order, and it is the signal the panel
\* shows for the same result.
\* ------------------------------------------------------------------------
C23_SameTopSignal ==
  [][ \A d \in AttributionResults :
        ( /\ d.attribution.entries # <<>>
          /\ BannerShownStep(OverlayTab)
          /\ DeliverResult(OverlayTab, d) ) =>
          LET entries == d.attribution.entries
          IN  /\ \E i \in DOMAIN entries :
                   /\ bannerReason'[OverlayTab] = entries[i][1]
                   /\ \A j \in DOMAIN entries : entries[j][2] <= entries[i][2]
                   /\ \A j \in 1..(i - 1) : entries[j][2] < entries[i][2]
              /\ bannerReason'[OverlayTab] = panelAttribution'[OverlayTab] ]_vars

\* ------------------------------------------------------------------------
\* C24.  When the service worker restarts while a session is active (in
\* memory and in storage), the session id, start time, task type and
\* tab-switch count it restores are the ones it held before the restart; in
\* particular the restored count holds no switch of an earlier session.
\* ------------------------------------------------------------------------
C24_RestoredEqualsBefore ==
  [][ (workerRestart /\ sessionId # 0 /\ storedActive /\ storedSessionId = sessionId) =>
        <<sessionId', sessionStartTime', taskType', tabSwitchCount'>> =
          <<sessionId, sessionStartTime, taskType, tabSwitchCount>> ]_vars

\* ------------------------------------------------------------------------
\* C27.  A START_SESSION handled while a session is active is answered
\* session_already_active and changes neither the worker's session state,
\* nor storage, nor the backend; and whatever the interleaving of
\* START_SESSION requests, the backend starts no session while the worker
\* holds an active one.
\* ------------------------------------------------------------------------
C27_OneSessionAtATime ==
  [][ \A k \in Callers :
        /\ ( sessionId # 0 /\ \E task \in WorkerTasks : startSession(k, task) ) =>
              /\ calls'[k].response = "session_already_active"
              /\ UNCHANGED <<sessionId, taskType, tabSwitchCount, sessionStartTime,
                             storedSessionId, storedTask, storedActive, storedStart,
                             storedTabSwitches, sessionsStarted>>
        /\ startSessionReturns(k) => sessionId = 0 ]_vars

\* ------------------------------------------------------------------------
\* Website: the stored history and the stored active session, from any
\* content the two items can have
\* ------------------------------------------------------------------------
HistorySessions == { Session(id, minutes) : id \in 1..MaxHistoryIds, minutes \in Durations }

HistoryItems ==
  {NoItem, CorruptItem, JsonNumber, JsonObject(0), JsonArray(<<>>), JsonArray(<<NullElement>>)}
    \cup { JsonArray(<<x>>) : x \in HistorySessions }

ActiveItems == {NoItem, CorruptItem, JsonNumber, JsonObject(0), JsonObject(1)}

InitRestore ==
  /\ InitExtension /\ mainChan = "instab"
  /\ InitPage
  /\ activeSession = 0
  /\ webSessionsStarted = 0
  /\ payloads = SteadyPattern
  /\ localHistory \in HistoryItems
  /\ localActive \in ActiveItems

NextRestore ==
  \/ pageLoad
  \/ readHistory
  \/ \E session \in HistorySessions : writeSession(session)
  \/ clearLocalSessions

SpecRestore == InitRestore /\ [][NextRestore]_vars

\* The history of a fresh profile, written and cleared by the page
NextHistory ==
  \/ readHistory
  \/ \E session \in HistorySessions : writeSession(session)
  \/ clearLocalSessions

SpecHistory == InitSessions /\ [][NextHistory]_vars

\* ------------------------------------------------------------------------
\* C30.  After writeLocalSession the history starts with the session just
\* written, holds no id twice, keeps the other sessions in their order, and
\* writing the same session again leaves it as it is.
\* ------------------------------------------------------------------------
NoDuplicateIds(sessions) ==
  \A i, j \in DOMAIN sessions : sessions[i].id = sessions[j].id => i = j

C30_WriteDeduplicates ==
  [][ \A session \in HistorySessions :
        writeSession(session) =>
          LET before == readLocalSessions(localHistory)
              after == readLocalSessions(localHistory')
              Other(x) == x.id # session.id
          IN  /\ after # <<>>
              /\ Head(after) = session
              /\ NoDuplicateIds(after)
              /\ Tail(after) = SelectSeq(before, Other)
              /\ writeLocalSession(localHistory', session) = localHistory' ]_vars

\* A session that was in the history with another duration was written
\* again and is now first, ahead of another session
C30_Witness ==
  /\ lastRead.done
  /\ \E i \in DOMAIN lastRead.value :
       lastRead.value[i].id = lastWrite.id /\ lastRead.value[i] # lastWrite
  /\ Len(readLocalSessions(localHistory)) >= 2
  /\ Head(readLocalSessions(localHistory)) = lastWrite

\* ------------------------------------------------------------------------
\* C25.  A restore from a missing, corrupt or wrongly-typed item gives the
\* fresh value (an empty history, no active session), and what the caller
\* gets differs from what any successful restore gives it, so that the
\* caller can tell the fallback from a restore.
\* ------------------------------------------------------------------------
BadHistoryItem(item) ==
  item.kind # "array" \/ \E i \in DOMAIN item.items : ~item.items[i].object

BadActiveItem(item) == ~(item.kind = "object" /\ item.id > 0)

C25_FallbackObservable ==
  /\ (lastRead.done /\ BadHistoryItem(lastRead.from)) =>
        /\ lastRead.value = <<>>
        /\ \A good \in HistoryItems :
             ~BadHistoryItem(good) => readLocalSessions(good) # lastRead.value
  /\ (lastRestore.done /\ BadActiveItem(lastRestore.from)) =>
        /\ lastRestore.session = 0
        /\ \A good \in ActiveItems :
             ~BadActiveItem(good) => InitialSession(good) # lastRestore.session

\* ------------------------------------------------------------------------
\* The overlay fed with results that lack fields, in sessions whose task the
\* popup chose: "Research" has no floors of its own
\* ------------------------------------------------------------------------
PartialResults ==
  { [MkResult(ZeroCh, risk, FALSE) EXCEPT !.instability = i, !.drift = Null, !.fatigue = Null] :
      risk \in {Null, 35}, i \in {Null, 45, 75} }

NextPartial ==
  \/ \E data \in PartialResults : DeliverResult(OverlayTab, data)
  \/ TaskRefreshCallback(OverlayTab)
  \/ \E task \in WorkerTasks : sessionsStarted < MaxSessions /\ startSession(1, task)
  \/ startSessionPost(1)
  \/ startSessionReturns(1)
  \/ startSessionAnswered(1)
  \/ Tick

InitPartial == Init /\ mainChan = "instab"

SpecPartial == InitPartial /\ [][NextPartial]_vars

\* ------------------------------------------------------------------------
\* C26.  A result whose risk, instability, drift or fatigue is missing is
\* processed exactly as the result with 0 in that field; under a task
\* without floors of its own the counters follow the general floors; and
\* the step runs to its end, the refresh of the task type included.
\* ------------------------------------------------------------------------
Zeroed(data) ==
  [data EXCEPT !.risk = IF @ = Null THEN 0 ELSE @,
               !.instability = IF @ = Null THEN 0 ELSE @,
               !.drift = IF @ = Null THEN 0 ELSE @,
               !.fatigue = IF @ = Null THEN 0 ELSE @]

ValueOf(data) ==
  [instab |-> Zeroed(data).instability, drift |-> Zeroed(data).drift,
   fatigue |-> Zeroed(data).fatigue]

C26_MissingIsZero ==
  [][ \A data \in PartialResults :
        DeliverResult(OverlayTab, data) =>
          /\ DeliverResult(OverlayTab, Zeroed(data))
          /\ (currentTask[OverlayTab] \notin KnownTasks /\ ~inBreakdown[OverlayTab]) =>
                \A c \in Chan :
                  sigCount'[OverlayTab][c] =
                    IF ValueOf(data)[c] >= TASK_THRESHOLDS["general"][c][1]
                    THEN sigCount[OverlayTab][c] + 1
                    ELSE Max(0, sigCount[OverlayTab][c] - 1)
          /\ pendingGets'[OverlayTab] ]_vars

\* Under the task "research" two results without drift were counted on the
\* instability channel and the second one fired its level 3
C26_Witness ==
  /\ currentTask[OverlayTab] = "research"
  /\ sigCount[OverlayTab]["instab"] = 2
  /\ inBreakdown[OverlayTab]

\* ------------------------------------------------------------------------
\* The self-reload trigger of the content scripts next to the background
\* service worker, which removes the trigger's flag whenever it starts
\* ------------------------------------------------------------------------
NextBoot ==
  \/ \E t \in Tabs : reloads < MaxReloads /\ cortexflowBootReload(t)
  \/ \E t \in Tabs : bootGetCallback(t)
  \/ \E t \in Tabs : bootReloadTimeout(t)
  \/ workerRestart
  \/ \E task \in WorkerTasks : sessionsStarted < MaxSessions /\ startSession(1, task)
  \/ startSessionPost(1)
  \/ startSessionReturns(1)
  \/ startSessionAnswered(1)
  \/ onSessionSet
  \/ endSession
  \/ onSessionCleared

SpecBoot == Init /\ [][NextBoot]_vars

\* ------------------------------------------------------------------------
\* C28.  The self-reload trigger fires once: however content-script loads
\* and background start-ups interleave, chrome.runtime.reload is called at
\* most one time.
\* ------------------------------------------------------------------------
C28_ReloadsOnce == reloads <= 1

\* ------------------------------------------------------------------------
\* The overlay of a user whose earlier sessions left entries in
\* intervention_history (no code of the extension ever removes the key)
\* ------------------------------------------------------------------------
PastLengths == {0, MAX_INTERVENTION_HISTORY - 1, MAX_INTERVENTION_HISTORY}

\* n entries logged before T0, one per millisecond
PastHistory(n) == [k \in 1..n |-> [t |-> k, chan |-> "drift", level |-> 2]]

InitLog ==
  /\ InitInstalled /\ mainChan = "drift"
  /\ InitPage
  /\ activeSession = 0
  /\ webSessionsStarted = 0
  /\ localHistory = NoItem
  /\ localActive = NoItem
  /\ payloads = SteadyPattern
  /\ \E n \in PastLengths : interventionHistory = PastHistory(n)

SpecLog == InitLog /\ [][Next]_vars

\* ------------------------------------------------------------------------
\* C29.  The intervention history kept in chrome.storage never holds more
\* than MAX_INTERVENTION_HISTORY (50) entries.
\* ------------------------------------------------------------------------
C29_HistoryBounded == Len(interventionHistory) <= MAX_INTERVENTION_HISTORY

\* ------------------------------------------------------------------------
\* C31.  Whenever a channel's level-3 intervention fires, the channel's value
\* was at or above its level-1 floor in the processed interval just before as
\* well as in the current one.
\* ------------------------------------------------------------------------
C31_NoIsolatedSpike ==
  [][ \A d \in Inputs : Processed(OverlayTab, d) => \A c \in Chan :
        last'[OverlayTab].fired[c] = 3 =>
          /\ last[OverlayTab].atFloor[c]
          /\ ChanValue(d, c) >= Floor(OverlayTab, c, 1) ]_vars

\* ------------------------------------------------------------------------
\* C32.  Outside breakdown mode and with the channel's cooldown over: when a
\* value between the level-2 and level-3 floors would fire the channel in the
\* present state, a processed result whose value is at or above the level-3
\* floor fires the channel too (level 2 or 3).
\* ------------------------------------------------------------------------
\* What channel c of the overlay would fire in the present state on value v
WouldFire(tab, c, v) ==
  LET thr == ThresholdsFor(currentTask[tab])[c]
  IN ChannelFire(getSignalLevel(v, thr), NextSigCount(sigCount[tab][c], v, thr[1]),
                 now, cooldownUntil[tab][c])

C32_Monotone ==
  [][ \A d \in Inputs : Processed(OverlayTab, d) => \A c \in Chan :
        ( /\ ~inBreakdown[OverlayTab]
          /\ now > cooldownUntil[OverlayTab][c]
          /\ WouldFire(OverlayTab, c, Floor(OverlayTab, c, 2)) # 0
          /\ ChanValue(d, c) >= Floor(OverlayTab, c, 3) )
        => last'[OverlayTab].fired[c] # 0 ]_vars

\* ------------------------------------------------------------------------
\* C33.  A breakdown banner stays active until the user dismisses it, the
\* session ends, or its own 15 s timeout fires: a timeout that takes the
\* banner away runs no earlier than 15 s after the banner was shown.
\* ------------------------------------------------------------------------
\* Due time of the timeout set when the banner now on the page was shown: no
\* banner is shown while one is active, so it is the timeout set last
OwnTimerDue(tab) == bannerTimers[tab][Len(bannerTimers[tab])]

C33_OwnTimerOnly ==
  [][ (isBreakdownActive[OverlayTab] /\ ~isBreakdownActive'[OverlayTab]) =>
        \/ DismissClick(OverlayTab)
        \/ SessionEndedMsg(OverlayTab)
        \/ AutoDismissTimer(OverlayTab) /\ now >= OwnTimerDue(OverlayTab) ]_vars

\* ------------------------------------------------------------------------
\* C34.  Every intervention a processed result fires is in the stored
\* intervention history once the logging of the result is complete, also
\* when several channels fire on the same result.
\* ------------------------------------------------------------------------
Logged(c, level, t) ==
  \E k \in DOMAIN interventionHistory :
    interventionHistory[k] = [t |-> t, chan |-> c, level |-> level]

C34_EveryFiringLogged ==
  \A c \in Chan :
    last[OverlayTab].fired[c] # 0 => Logged(c, last[OverlayTab].fired[c], lastFiredAt[OverlayTab][c])

\* ------------------------------------------------------------------------
\* The background service worker with its active-session polling and the
\* backend's view of the session
\* ------------------------------------------------------------------------
NextPoll ==
  \/ \E task \in WorkerTasks : sessionsStarted < MaxSessions /\ startSession(1, task)
  \/ startSessionPost(1)
  \/ startSessionReturns(1)
  \/ startSessionAnswered(1)
  \/ onSessionSet
  \/ clearPending < MaxPending /\ endSession
  \/ onSessionCleared
  \/ \E sid \in stopPending : stopReturns(sid)
  \/ \E sid \in stopPending : stopFails(sid)
  \/ pollTick
  \/ setPending < MaxPending /\ pollReturns
  \/ pollFails
  \/ collectAndSend(OverlayTab)
  \/ sendTelemetry(OverlayTab)
  \/ fetchFails(OverlayTab)

SpecPoll == Init /\ [][NextPoll]_vars

\* Sessions started and ended from the popup and from the website, next to
\* the poll, the telemetry of one tab and restarts of the worker.  The
\* storage.onChanged events reach the worker in the order of the writes.
MaxSiteSessions == 1

NextSync ==
  \/ sessionsStarted < MaxSessions /\ startSession(1, "Research")
  \/ startSessionPost(1)
  \/ startSessionReturns(1)
  \/ startSessionFails(1)
  \/ startSessionAnswered(1)
  \/ webSessionsStarted < MaxSiteSessions /\ webStartSession
  \/ webStopSession
  \/ bridgeListener
  \/ changes # <<>> /\ Head(changes) = "set" /\ onSessionSet
  \/ changes # <<>> /\ Head(changes) = "clear" /\ onSessionCleared
  \/ clearPending < MaxPending /\ endSession
  \/ \E sid \in stopPending : stopReturns(sid)
  \/ \E sid \in stopPending : stopFails(sid)
  \/ pollTick
  \/ setPending < MaxPending /\ pollReturns
  \/ pollFails
  \/ collectAndSend(OverlayTab)
  \/ sendTelemetry(OverlayTab)
  \/ fetchFails(OverlayTab)
  \/ telemetryResponse(OverlayTab)
  \/ workerRestart

SpecSync == InitPipe /\ [][NextSync]_vars

\* Nothing is under way: no storage event, no message of the bridge, no
\* START_SESSION call, no telemetry request, no poll and no stop request
Quiescent ==
  /\ changes = <<>> /\ bridge = <<>>
  /\ setPending = 0 /\ clearPending = 0
  /\ \A k \in Callers : calls[k].phase = "idle"
  /\ \A t \in Tabs : req[t].phase = "idle"
  /\ pollPhase = "idle"
  /\ stopPending = {}

\* ------------------------------------------------------------------------
\* C39.  Whenever nothing is under way, the worker's sessionId is non-null
\* exactly when storage holds cortexflow_session_active = true with a
\* non-null cortexflow_session_id, and then the two ids are equal.
\* ------------------------------------------------------------------------
C39_MemoryMatchesStorage ==
  Quiescent =>
    /\ (sessionId # 0) <=> (storedActive /\ storedSessionId # 0)
    /\ sessionId # 0 => sessionId = storedSessionId

\* Nothing is under way, a session was ended from the popup and the worker
\* holds a session again
C39_Witness == Quiescent /\ sessionId # 0 /\ storedActive /\ ended # {}

\* ------------------------------------------------------------------------
\* C35.  After END_SESSION has been handled, the background never again holds
\* the ended session's id, in memory or in storage.
\* ------------------------------------------------------------------------
C35_EndedStaysEnded == sessionId \notin ended /\ storedSessionId \notin ended

\* ------------------------------------------------------------------------
\* C36.  Every result is evaluated against the floor triples and the red
\* threshold of the task type that storage holds for the session when the
\* result is processed.
\* ------------------------------------------------------------------------
C36_FloorsOfStoredTask ==
  [][ \A data \in PartialResults :
        (DeliverResult(OverlayTab, data) /\ storedTask # NoTask) =>
          /\ ThresholdsFor(currentTask[OverlayTab]) = ThresholdsFor(ToLowerCase(storedTask))
          /\ RedAtFor(currentTask[OverlayTab]) = RedAtFor(ToLowerCase(storedTask)) ]_vars

\* ------------------------------------------------------------------------
\* C40.  A result processed in breakdown mode changes no hysteresis counter,
\* no cooldown expiry and not the cached task: of the dispatcher's variables
\* only the recovery counter and the breakdown-mode flag can change.  The
\* recovery counter is 0 whenever the overlay is not in breakdown mode.
\* ------------------------------------------------------------------------
C40_BreakdownFrame ==
  /\ [](\A t \in Tabs : ~inBreakdown[t] => recoveryCount[t] = 0)
  /\ [][ \A d \in Inputs :
           (inBreakdown[OverlayTab] /\ Processed(OverlayTab, d)) =>
              UNCHANGED <<sigCount, cooldownUntil, currentTask>> ]_vars

\* A result was processed in breakdown mode and ended it, with a counter
\* that had reached the level-3 count
C40_Witness ==
  /\ last[OverlayTab].inBreakdownBefore
  /\ ~inBreakdown[OverlayTab]
  /\ \E c \in Chan : sigCount[OverlayTab][c] >= SustainNeeded

====
